---- MODULE Spec2Model ----
(***************************************************************************)
(* Artifact garbage collection of a pipeline node                          *)
(* (tfx/orchestration/experimental/core/garbage_collection.py).            *)
(*                                                                         *)
(* SpecPolicy applies the policy evaluator to bounded inputs.              *)
(* Spec runs node-level garbage collection passes against a metadata       *)
(* store and a filesystem.                                                 *)
(* SpecExecutions lets executions start while a pass runs.                 *)
(* SpecRetry repeats the pass without end, under fairness.                 *)
(* SpecNodes interleaves the passes of two nodes.                          *)
(***************************************************************************)
EXTENDS Integers, Sequences, FiniteSets, TLC

\* ------------------------------------------------------------------ bounds
\* KeepMostRecentlyPublished and single-grouping inputs.
MaxArtifacts == 4
MaxTime == 3
MaxNum == 3
MaxVal == 3
MaxKeep == 2
\* Two-level KeepPropertyValueGroups inputs.
MaxNested == 3
\* Two-level inputs whose second property takes values of two types.
MaxMixed == 2

\* ------------------------------------------------------------ python values
\* A metadata value carries its python type; None is its own type.
NoneValue == [t |-> "none", v |-> 0]

IntValue(n) == [t |-> "int", v |-> n]

StrValue(n) == [t |-> "str", v |-> n]

\* An exception leaving a function, or its return value.
Raise(kind) == [exc |-> kind, ret |-> <<>>]

Return(value) == [exc |-> "none", ret |-> value]

\* sorted() on a list of integers (insertion sort, stable).
RECURSIVE InsertSorted(_, _)
InsertSorted(s, x) ==
  IF s = <<>> THEN <<x>>
  ELSE IF x < Head(s) THEN <<x>> \o s
  ELSE <<Head(s)>> \o InsertSorted(Tail(s), x)

RECURSIVE sorted(_)
sorted(s) ==
  IF s = <<>> THEN <<>>
  ELSE InsertSorted(sorted(SubSeq(s, 1, Len(s) - 1)), s[Len(s)])

\* sorted() on property values of one type: ordered by their payload.
RECURSIVE InsertSortedValue(_, _)
InsertSortedValue(s, x) ==
  IF s = <<>> THEN <<x>>
  ELSE IF x.v < Head(s).v THEN <<x>> \o s
  ELSE <<Head(s)>> \o InsertSortedValue(Tail(s), x)

RECURSIVE sorted_values(_)
sorted_values(s) ==
  IF s = <<>> THEN <<>>
  ELSE InsertSortedValue(sorted_values(SubSeq(s, 1, Len(s) - 1)), s[Len(s)])

\* s[-k:] for k >= 1.
LastK(s, k) == IF k >= Len(s) THEN s ELSE SubSeq(s, Len(s) - k + 1, Len(s))

\* s[:k] for k >= 1.
FirstK(s, k) == IF k >= Len(s) THEN s ELSE SubSeq(s, 1, k)

\* ---------------------------------------------------------- policy evaluator
\* Mutant: the cutoff taken one place too low in the sorted times.
CutoffPublishTime_OffByOne(publish_times, num_artifacts) ==
  publish_times[Len(publish_times) - num_artifacts]

\* Line 124: publish_times[-num_artifacts].
CutoffPublishTime(publish_times, num_artifacts) ==
  publish_times[Len(publish_times) - num_artifacts + 1]

\* Mutant: artifacts published at the cutoff are dropped too.
PublishedBefore_Inclusive(artifact, cutoff_publish_time) ==
  artifact.create_time_since_epoch <= cutoff_publish_time

\* Line 126: the filter of the returned list.
PublishedBefore(artifact, cutoff_publish_time) ==
  artifact.create_time_since_epoch < cutoff_publish_time

\* Mutant: a short artifact list is returned for deletion instead of kept.
NotMostRecentlyPublished_DropsShortList(artifacts, keep_most_recently_published) ==
  LET num_artifacts == keep_most_recently_published.num_artifacts IN
  IF num_artifacts <= 0 \/ Len(artifacts) <= num_artifacts THEN artifacts
  ELSE SelectSeq(artifacts, LAMBDA a: PublishedBefore(a,
         CutoffPublishTime(
           sorted([i \in 1..Len(artifacts) |-> artifacts[i].create_time_since_epoch]),
           num_artifacts)))

\* Mutant: a non-positive num_artifacts keeps everything.
NotMostRecentlyPublished_KeepsAllWhenZero(artifacts, keep_most_recently_published) ==
  LET num_artifacts == keep_most_recently_published.num_artifacts IN
  IF num_artifacts <= 0 \/ Len(artifacts) <= num_artifacts THEN <<>>
  ELSE SelectSeq(artifacts, LAMBDA a: PublishedBefore(a,
         CutoffPublishTime(
           sorted([i \in 1..Len(artifacts) |-> artifacts[i].create_time_since_epoch]),
           num_artifacts)))

\* KeepMostRecentlyPublished: the artifacts published before the cutoff.
_artifacts_not_most_recently_published(artifacts, keep_most_recently_published) ==
  LET num_artifacts == keep_most_recently_published.num_artifacts IN
  IF num_artifacts <= 0 THEN artifacts
  ELSE IF Len(artifacts) <= num_artifacts THEN <<>>
  ELSE
    LET publish_times ==
          sorted([i \in 1..Len(artifacts) |-> artifacts[i].create_time_since_epoch])
        cutoff_publish_time == CutoffPublishTime(publish_times, num_artifacts)
    IN SelectSeq(artifacts, LAMBDA a: PublishedBefore(a, cutoff_publish_time))

\* Typed properties take precedence over custom properties; None when absent.
_get_property_value(artifact, property_name) ==
  IF property_name \in DOMAIN artifact.properties
    THEN artifact.properties[property_name]
  ELSE IF property_name \in DOMAIN artifact.custom_properties
    THEN artifact.custom_properties[property_name]
  ELSE NoneValue

\* The defaultdict(list) of one artifact group: entries in insertion order.
DictHas(dict, key) == \E i \in 1..Len(dict): dict[i].key = key

DictGet(dict, key) ==
  LET i == CHOOSE j \in 1..Len(dict): dict[j].key = key IN dict[i].members

DictAppend(dict, key, artifact) ==
  IF DictHas(dict, key)
    THEN [i \in 1..Len(dict) |->
            IF dict[i].key = key
              THEN [key |-> key, members |-> Append(dict[i].members, artifact)]
              ELSE dict[i]]
    ELSE Append(dict, [key |-> key, members |-> <<artifact>>])

\* Lines 151-162: bucket one artifact group by property value, checking that
\* every non-None value has the type seen so far in this grouping.
RECURSIVE BucketGroup(_, _, _, _, _)
BucketGroup(artifact_group, property_name, i, dict, all_property_value_type) ==
  IF i > Len(artifact_group)
    THEN [exc |-> "none", dict |-> dict, type |-> all_property_value_type]
  ELSE
    LET artifact == artifact_group[i]
        property_value == _get_property_value(artifact, property_name)
    IN IF /\ property_value # NoneValue
          /\ all_property_value_type # "none"
          /\ all_property_value_type # property_value.t
         THEN [exc |-> "ValueError", dict |-> dict, type |-> all_property_value_type]
         ELSE BucketGroup(artifact_group, property_name, i + 1,
                          DictAppend(dict, property_value, artifact),
                          IF property_value # NoneValue
                            THEN property_value.t
                            ELSE all_property_value_type)

\* Mutant: keep_num = 0 is treated as a limit of zero buckets.
KeepsEveryBucket_OnlyNegative(grouping) == grouping.keep_num < 0

\* Line 164: a grouping without a positive keep_num keeps every bucket.
KeepsEveryBucket(grouping) == grouping.keep_num <= 0

\* Mutant: KEEP_ORDER_LARGEST keeps the head of the sorted values.
PropertyValuesToKeep_LargestFromHead(sorted_property_values, grouping) ==
  IF grouping.keep_order \in {"KEEP_ORDER_UNSPECIFIED", "KEEP_ORDER_LARGEST"}
    THEN FirstK(sorted_property_values, grouping.keep_num)
    ELSE FirstK(sorted_property_values, grouping.keep_num)

\* Mutant: only KEEP_ORDER_LARGEST keeps the tail; the default falls through.
PropertyValuesToKeep_UnspecifiedSmallest(sorted_property_values, grouping) ==
  IF grouping.keep_order = "KEEP_ORDER_LARGEST"
    THEN LastK(sorted_property_values, grouping.keep_num)
    ELSE FirstK(sorted_property_values, grouping.keep_num)

\* Lines 169-173: the property values whose buckets survive.
PropertyValuesToKeep(sorted_property_values, grouping) ==
  IF grouping.keep_order \in {"KEEP_ORDER_UNSPECIFIED", "KEEP_ORDER_LARGEST"}
    THEN LastK(sorted_property_values, grouping.keep_num)
    ELSE FirstK(sorted_property_values, grouping.keep_num)

\* Mutant: the None bucket survives whenever it is present.
KeepsNoneBucket_WheneverPresent(dict, property_values_to_keep, grouping) ==
  DictHas(dict, NoneValue)

\* Lines 181-182: the None bucket fills a keep list that is short.
KeepsNoneBucket(dict, property_values_to_keep, grouping) ==
  /\ DictHas(dict, NoneValue)
  /\ Len(property_values_to_keep) < grouping.keep_num

\* Lines 164-186: the groups one bucketed artifact group hands to the next level.
KeptGroups(dict, grouping) ==
  IF KeepsEveryBucket(grouping)
    THEN Return([i \in 1..Len(dict) |-> dict[i].members])
  ELSE
    LET keys == [i \in 1..Len(dict) |-> dict[i].key]
        sorted_property_values ==
          sorted_values(SelectSeq(keys, LAMBDA x: x # NoneValue))
        known == grouping.keep_order \in
                   {"KEEP_ORDER_UNSPECIFIED", "KEEP_ORDER_LARGEST", "KEEP_ORDER_SMALLEST"}
        property_values_to_keep == PropertyValuesToKeep(sorted_property_values, grouping)
        kept == [i \in 1..Len(property_values_to_keep) |->
                   DictGet(dict, property_values_to_keep[i])]
    IN IF ~known THEN Raise("ValueError")
       ELSE IF KeepsNoneBucket(dict, property_values_to_keep, grouping)
         THEN Return(Append(kept, DictGet(dict, NoneValue)))
         ELSE Return(kept)

\* Mutant: the grouping buckets and selects over all current groups at once.
ApplyGrouping_OverWholeSet(artifact_groups, grouping, g, next_artifact_groups, all_property_value_type) ==
  LET Flat[n \in 0..Len(artifact_groups)] ==
        IF n = 0 THEN <<>> ELSE Flat[n - 1] \o artifact_groups[n]
      b == BucketGroup(Flat[Len(artifact_groups)], grouping.property_name, 1, <<>>,
                       all_property_value_type)
  IN IF b.exc # "none" THEN Raise(b.exc) ELSE KeptGroups(b.dict, grouping)

\* Lines 150-186: one grouping applied to every current artifact group, the
\* seen value type carried from group to group.
RECURSIVE ApplyGrouping(_, _, _, _, _)
ApplyGrouping(artifact_groups, grouping, g, next_artifact_groups, all_property_value_type) ==
  IF g > Len(artifact_groups) THEN Return(next_artifact_groups)
  ELSE
    LET b == BucketGroup(artifact_groups[g], grouping.property_name, 1, <<>>,
                         all_property_value_type)
        k == KeptGroups(b.dict, grouping)
    IN IF b.exc # "none" THEN Raise(b.exc)
       ELSE IF k.exc # "none" THEN Raise(k.exc)
       ELSE ApplyGrouping(artifact_groups, grouping, g + 1,
                          next_artifact_groups \o k.ret, b.type)

\* Lines 146-187: the groupings applied in order to the worklist of groups.
RECURSIVE ApplyGroupings(_, _, _)
ApplyGroupings(artifact_groups, groupings, n) ==
  IF n > Len(groupings) THEN Return(artifact_groups)
  ELSE
    LET r == ApplyGrouping(artifact_groups, groupings[n], 1, <<>>, "none")
    IN IF r.exc # "none" THEN r
       ELSE ApplyGroupings(r.ret, groupings, n + 1)

\* Mutant: only the first surviving group is kept.
ArtifactsNotKept_FirstGroupOnly(artifacts, keep_property_value_groups) ==
  LET r == ApplyGroupings(<<artifacts>>, keep_property_value_groups.groupings, 1)
      artifacts_ids_to_keep ==
        IF r.ret = <<>> THEN {} ELSE {r.ret[1][i].id : i \in 1..Len(r.ret[1])}
  IN IF r.exc # "none" THEN r
     ELSE Return(SelectSeq(artifacts, LAMBDA a: a.id \notin artifacts_ids_to_keep))

\* KeepPropertyValueGroups: the artifacts in no surviving group.
_artifacts_not_kept_by_property_value_groups(artifacts, keep_property_value_groups) ==
  LET r == ApplyGroupings(<<artifacts>>, keep_property_value_groups.groupings, 1)
      artifacts_ids_to_keep ==
        UNION {{r.ret[g][i].id : i \in 1..Len(r.ret[g])} : g \in 1..Len(r.ret)}
  IN IF r.exc # "none" THEN r
     ELSE Return(SelectSeq(artifacts, LAMBDA a: a.id \notin artifacts_ids_to_keep))

\* oneof policy: which field of the policy message is set.
HasField(policy, field) == policy.policy = field

\* Mutant: a policy with neither variant set keeps nothing.
ArtifactsForPolicy_UnsetKeepsNothing(artifacts, policy) ==
  IF HasField(policy, "keep_most_recently_published")
    THEN Return(_artifacts_not_most_recently_published(
                  artifacts, policy.keep_most_recently_published))
  ELSE IF HasField(policy, "keep_property_value_groups")
    THEN _artifacts_not_kept_by_property_value_groups(
           artifacts, policy.keep_property_value_groups)
  ELSE Return(artifacts)

\* The artifacts the policy does not keep; an unset policy keeps everything.
_artifacts_to_garbage_collect_for_policy(artifacts, policy) ==
  IF HasField(policy, "keep_most_recently_published")
    THEN Return(_artifacts_not_most_recently_published(
                  artifacts, policy.keep_most_recently_published))
  ELSE IF HasField(policy, "keep_property_value_groups")
    THEN _artifacts_not_kept_by_property_value_groups(
           artifacts, policy.keep_property_value_groups)
  ELSE Return(<<>>)

\* ------------------------------------------------------------ message values
EmptyMap == [n \in {} |-> NoneValue]

Artifact(id, time, properties, custom_properties) ==
  [id |-> id, uri |-> id, state |-> "LIVE", create_time_since_epoch |-> time,
   properties |-> properties, custom_properties |-> custom_properties]

Grouping(property_name, keep_num, keep_order) ==
  [property_name |-> property_name, keep_num |-> keep_num, keep_order |-> keep_order]

KeepMostRecentlyPublished(n) ==
  [policy |-> "keep_most_recently_published",
   keep_most_recently_published |-> [num_artifacts |-> n],
   keep_property_value_groups |-> [groupings |-> <<>>]]

KeepPropertyValueGroups(groupings) ==
  [policy |-> "keep_property_value_groups",
   keep_most_recently_published |-> [num_artifacts |-> 0],
   keep_property_value_groups |-> [groupings |-> groupings]]

UnsetPolicy ==
  [policy |-> "unset",
   keep_most_recently_published |-> [num_artifacts |-> 0],
   keep_property_value_groups |-> [groupings |-> <<>>]]

\* -------------------------------------------------------------------- state
VARIABLES
  \* metadata store
  mlmd_artifacts,           \* artifact id -> artifact record
  mlmd_events,              \* set of events [artifact_id, execution_id, type]
  mlmd_executions,          \* execution id -> execution record, for the ids stored
  used_in_pipeline_groups,  \* artifact ids the pipeline-group extension protects
  \* filesystem: the uris that exist
  fs,
  \* the node whose outputs are collected: output key -> output spec
  node_outputs,
  \* one call of run_garbage_collection_for_node
  pc,                       \* where the call stands
  node_uid,                 \* the node id the caller passed
  artifacts_by_output_key,  \* line 276
  events,                   \* line 293
  output_keys,              \* the policies still to go through at line 296
  result,                   \* line 295
  gc_artifacts,             \* the argument of garbage_collect_artifacts
  index,                    \* position of the loop at line 327
  \* history of the current call
  gc_called,                \* garbage_collect_artifacts was entered
  logged,                   \* the exception caught at line 366, if any
  fs_calls,                 \* filesystem calls made: [op, uri]
  store_reads,              \* number of store queries made
  store_writes,             \* number of put_artifacts calls made
  passes,                   \* calls started so far
  expired,                  \* uris removed out of band so far
  interrupts,               \* passes cut short so far
  clean_pass,               \* the last pass completed with every removal done,
                            \* and no execution changed since
  \* policy evaluator harness
  pe_artifacts, pe_policy, pe_result, pe_worklists, pe_pc,
  \* passes of several nodes side by side
  node_pass                 \* node id -> position and locals of the node's pass

store_vars == <<mlmd_artifacts, mlmd_events, mlmd_executions, used_in_pipeline_groups>>

local_vars == <<artifacts_by_output_key, events, output_keys, result, gc_artifacts, index>>

history_vars == <<gc_called, logged, fs_calls, store_reads, store_writes>>

pe_vars == <<pe_artifacts, pe_policy, pe_result, pe_worklists, pe_pc>>

gc_vars ==
  <<store_vars, fs, node_outputs, pc, node_uid, local_vars, history_vars, passes, expired,
    interrupts, clean_pass>>

\* ------------------------------------------------------------- the scenario
MaxPasses == 2
MaxExpired == 1
MaxInterrupts == 1

\* node.node_info.id, and the node ids a caller may pass in node_uid.
NodeId == "trainer"

NodeUids == {"trainer", "evaluator"}

ArtifactIds == {1, 2, 3}

ExecutionIds == {1, 2}

OutputKeys == <<"model", "metrics">>

\* The output key under which the node published each artifact.
OutputKeyOf(id) == IF id \in {1, 2} THEN "model" ELSE "metrics"

\* Artifacts 1 and 2 carry a typed span equal to their creation time.
StoredArtifact(id, external) ==
  Artifact(id,
           IF id = 3 THEN 1 ELSE id,
           IF id = 3 THEN EmptyMap ELSE [span |-> IntValue(id)],
           IF external THEN [is_external |-> IntValue(1)] ELSE EmptyMap)

Event(artifact_id, execution_id, type) ==
  [artifact_id |-> artifact_id, execution_id |-> execution_id, type |-> type]

Execution(id, last_known_state) == [id |-> id, last_known_state |-> last_known_state]

\* node.outputs.outputs[key]: garbage_collection_policy is an optional field.
OutputSpec(has_policy, policy) ==
  [has_garbage_collection_policy |-> has_policy, garbage_collection_policy |-> policy]

ModelPolicies ==
  {KeepMostRecentlyPublished(1), KeepMostRecentlyPublished(0),
   KeepPropertyValueGroups(<<Grouping("span", 1, "KEEP_ORDER_SMALLEST")>>),
   KeepPropertyValueGroups(<<Grouping("span", 1, "KEEP_ORDER_UNKNOWN")>>),
   UnsetPolicy}

MetricsPolicies == {KeepMostRecentlyPublished(0)}

\* -------------------------------------------------------- store collaborators
\* event_lib.is_valid_input_event
is_valid_input_event(e) == e.type = "INPUT"

\* execution_lib.is_execution_active
is_execution_active(execution) == execution.last_known_state \in {"NEW", "RUNNING"}

\* store.get_executions_by_id: the executions found, unknown ids left out.
get_executions_by_id(executions, ids) ==
  {executions[id] : id \in ids \cap DOMAIN executions}

\* store.get_events_by_artifact_ids
get_events_by_artifact_ids(store_events, ids) ==
  {e \in store_events : e.artifact_id \in ids}

\* Mutant: output artifacts are returned whatever their state.
GetLiveOutputArtifacts_AnyState(store_artifacts, uid) ==
  LET every(key) ==
        SelectSeq([i \in 1..Cardinality(ArtifactIds) |-> store_artifacts[i]],
                  LAMBDA a: OutputKeyOf(a.id) = key /\ uid = NodeId)
      keys == {OutputKeys[k] : k \in 1..Len(OutputKeys)}
  IN [key \in {k \in keys : every(k) # <<>>} |-> every(key)]

\* store_ext.get_live_output_artifacts_of_node_by_output_key, flattened as at
\* lines 51-54: the LIVE output artifacts of the node under each output key
\* that has any.
_get_live_output_artifacts_for_node(store_artifacts, uid) ==
  LET live(key) ==
        SelectSeq([i \in 1..Cardinality(ArtifactIds) |-> store_artifacts[i]],
                  LAMBDA a: a.state = "LIVE" /\ OutputKeyOf(a.id) = key /\ uid = NodeId)
      keys == {OutputKeys[k] : k \in 1..Len(OutputKeys)}
  IN [key \in {k \in keys : live(k) # <<>>} |-> live(key)]

\* Mutant: every output key counts as having a policy.
GetPolicies_EveryOutputKey(outputs) == OutputKeys

\* Lines 57-64: the output keys whose spec has a policy, in declaration order.
_get_garbage_collection_policies_for_node(outputs) ==
  SelectSeq(OutputKeys, LAMBDA key: outputs[key].has_garbage_collection_policy)

\* garbage_collection_extensions.artifacts_not_in_use_in_pipeline_groups
artifacts_not_in_use_in_pipeline_groups(used, artifacts) ==
  SelectSeq(artifacts, LAMBDA a: a.id \notin used)

\* ---------------------------------------------------------------- usage filter
\* Mutant: events of either direction count as input events.
InputEvents_AnyDirection(artifacts, all_events) ==
  LET artifact_ids == {artifacts[i].id : i \in 1..Len(artifacts)} IN
  {e \in all_events : e.artifact_id \in artifact_ids}

\* Lines 73-78: the input events on the candidate artifacts.
InputEvents(artifacts, all_events) ==
  LET artifact_ids == {artifacts[i].id : i \in 1..Len(artifacts)} IN
  {e \in all_events : e.artifact_id \in artifact_ids /\ is_valid_input_event(e)}

\* Mutant: an artifact is in use only if its consumer is no longer active.
InUseArtifactIds_Inverted(input_events, executions) ==
  {e.artifact_id : e \in {x \in input_events :
                            ~is_execution_active(executions[x.execution_id])}}

\* Lines 83-90: the candidates consumed by an active execution.
InUseArtifactIds(input_events, executions) ==
  {e.artifact_id : e \in {x \in input_events :
                            is_execution_active(executions[x.execution_id])}}

\* Mutant: an event whose execution the store does not return is passed over.
NotInUseAmong_MissingIsUnused(artifacts, input_events, found) ==
  Return(SelectSeq(artifacts,
    LAMBDA a: a.id \notin InUseArtifactIds(
                            {e \in input_events : e.execution_id \in {x.id : x \in found}},
                            [id \in {x.id : x \in found} |->
                               CHOOSE x \in found : x.id = id])))

\* Lines 82-91: the candidates left once the executions are looked up.
NotInUseAmong(artifacts, input_events, found) ==
  IF \E e \in input_events : e.execution_id \notin {x.id : x \in found}
    THEN Raise("RuntimeError")
    ELSE Return(SelectSeq(artifacts,
           LAMBDA a: a.id \notin InUseArtifactIds(
                                   input_events,
                                   [id \in {x.id : x \in found} |->
                                      CHOOSE x \in found : x.id = id])))

\* Lines 78-81: without execution ids the store is not asked; `read` tells
\* whether get_executions_by_id was called.
FilterByInputEvents(executions, artifacts, input_events) ==
  IF input_events = {}
    THEN [exc |-> "none", ret |-> artifacts, read |-> FALSE]
    ELSE NotInUseAmong(artifacts, input_events,
           get_executions_by_id(executions, {e.execution_id : e \in input_events}))
         @@ [read |-> TRUE]

\* Lines 67-91
_artifacts_not_in_use(executions, artifacts, all_events) ==
  FilterByInputEvents(executions, artifacts, InputEvents(artifacts, all_events))

\* Mutant: a policy that cannot be evaluated selects nothing for its key.
FilterCandidates_SwallowsPolicyError(executions, used, all_events, by_policy) ==
  IF by_policy.exc # "none"
    THEN [exc |-> "none", ret |-> <<>>, read |-> FALSE]
    ELSE _artifacts_not_in_use(
           executions, artifacts_not_in_use_in_pipeline_groups(used, by_policy.ret),
           all_events)

\* Lines 204-210: the pipeline-group filter, then the usage filter.
FilterCandidates(executions, used, all_events, by_policy) ==
  IF by_policy.exc # "none"
    THEN [exc |-> by_policy.exc, ret |-> <<>>, read |-> FALSE]
    ELSE _artifacts_not_in_use(
           executions, artifacts_not_in_use_in_pipeline_groups(used, by_policy.ret),
           all_events)

\* Mutant: every artifact of the key goes through the filters, kept or not.
ArtifactsToGarbageCollect_SkipsPolicy(executions, used, artifacts, all_events, policy) ==
  FilterCandidates(executions, used, all_events, Return(artifacts))

\* Lines 195-210: policy, pipeline-group filter, usage filter.
_artifacts_to_garbage_collect(executions, used, artifacts, all_events, policy) ==
  FilterCandidates(executions, used, all_events,
                   _artifacts_to_garbage_collect_for_policy(artifacts, policy))

\* Mutant: no artifact counts as external.
IsArtifactExternal_Never(artifact) == FALSE

\* Line 215
_is_artifact_external(artifact) ==
  _get_property_value(artifact, "is_external") = IntValue(1)

\* ------------------------------------------------------------------- purge
\* The uris that are directories while they exist.
DirectoryUris == {1}

FsCall(op, uri) == [op |-> op, uri |-> uri]

\* What the filesystem may do with one removal: remove the uri; refuse while the
\* uri stays; report a uri that is not there; or fail the exists() check too.
FsOutcomes(files, uri) ==
  IF uri \in files THEN {"removed", "denied", "exists_raises"}
                   ELSE {"missing", "exists_raises"}

\* Mutant: the exists() check after a failed removal is read the wrong way.
DeleteSucceeded_ExistsInverted(outcome) == outcome \in {"removed", "denied"}

\* Mutant: a uri found missing after a failed removal counts as a failure.
DeleteSucceeded_OnlyWhenRemoved(outcome) == outcome = "removed"

\* Mutant: a failed removal is reported as a success.
DeleteSucceeded_IgnoresFailure(outcome) == outcome \in {"removed", "missing", "denied"}

\* Lines 236 and 251-258: the value _delete_artifact_uri returns.
DeleteSucceeded(outcome) == outcome \in {"removed", "missing"}

\* Mutant: the error of removing a uri that does not exist is let through.
DeleteArtifactUri_MissingRaises(files, artifact, outcome) ==
  LET uri == artifact.uri
      removal == IF uri \in files /\ uri \in DirectoryUris THEN "rmtree" ELSE "remove"
  IN [files |-> IF outcome = "removed" THEN files \ {uri} ELSE files,
      calls |-> {FsCall("isdir", uri), FsCall(removal, uri)},
      exc |-> IF outcome \in {"missing", "exists_raises"} THEN "OSError" ELSE "none",
      ret |-> DeleteSucceeded(outcome)]

\* Lines 218-258 under one filesystem outcome: the files left, the calls made,
\* and the boolean returned or the exception of exists() let through.
_delete_artifact_uri(files, artifact, outcome) ==
  LET uri == artifact.uri
      removal == IF uri \in files /\ uri \in DirectoryUris THEN "rmtree" ELSE "remove"
      calls == {FsCall("isdir", uri), FsCall(removal, uri)}
                 \cup IF outcome = "removed" THEN {} ELSE {FsCall("exists", uri)}
  IN [files |-> IF outcome = "removed" THEN files \ {uri} ELSE files,
      calls |-> calls,
      exc |-> IF outcome = "exists_raises" THEN "OSError" ELSE "none",
      ret |-> DeleteSucceeded(outcome)]

\* Mutant: a purged artifact is parked in the intermediate state.
MarkDeleted_MarkedForDeletion(artifact) == [artifact EXCEPT !.state = "MARKED_FOR_DELETION"]

\* Lines 332 and 338
MarkDeleted(artifact) == [artifact EXCEPT !.state = "DELETED"]

\* store.put_artifacts: every record handed over replaces the stored one.
put_artifacts(store_artifacts, artifacts) ==
  [id \in DOMAIN store_artifacts |->
     IF \E i \in 1..Len(artifacts) : artifacts[i].id = id
       THEN artifacts[CHOOSE i \in 1..Len(artifacts) : artifacts[i].id = id]
       ELSE store_artifacts[id]]

\* --------------------------------------------------------------- the node pass
AtRest == pc \in {"idle", "returned", "raised"}

ResetLocals ==
  /\ artifacts_by_output_key' = <<>>
  /\ events' = {}
  /\ output_keys' = <<>>
  /\ result' = <<>>
  /\ index' = 0

\* Mutant: the node ids are not compared.
NodeUidsMismatch_Unchecked(node_id, uid) == FALSE

\* Line 349
NodeUidsMismatch(node_id, uid) == node_id # uid

\* Mutant: the handler logs and raises again.
AfterException_Reraises(kind) == "raised"

\* Lines 366-367: an exception inside the try block is logged, the call returns.
AfterException(kind) == "returned"

Caught(kind) ==
  /\ pc' = AfterException(kind)
  /\ logged' = kind
  /\ clean_pass' = FALSE
  /\ ResetLocals

\* Lines 343-359 and 267-274: the call starts; mismatching node ids raise.
StartPass(uid) ==
  /\ AtRest
  /\ node_uid' = uid
  /\ gc_called' = FALSE /\ logged' = "none" /\ fs_calls' = {}
  /\ store_reads' = 0 /\ store_writes' = 0
  /\ gc_artifacts' = <<>>
  /\ artifacts_by_output_key' = <<>> /\ events' = {} /\ result' = <<>> /\ index' = 0
  /\ IF NodeUidsMismatch(NodeId, uid)
       THEN pc' = "raised" /\ output_keys' = <<>>
       ELSE LET policies_by_output_key ==
                  _get_garbage_collection_policies_for_node(node_outputs)
            IN /\ output_keys' = policies_by_output_key
               /\ pc' = IF policies_by_output_key = <<>> THEN "collect"
                                                         ELSE "fetch_artifacts"
  /\ UNCHANGED <<store_vars, fs, node_outputs, expired, interrupts, clean_pass, pe_vars, node_pass>>

\* One of the MaxPasses calls of a run.
RunGarbageCollection(uid) ==
  /\ passes < MaxPasses
  /\ passes' = passes + 1
  /\ StartPass(uid)

\* Lines 276-280: the live output artifacts of the node.
FetchLiveArtifacts ==
  /\ pc = "fetch_artifacts"
  /\ store_reads' = store_reads + 1
  /\ \E ok \in BOOLEAN :
       IF ~ok THEN Caught("StoreError")
       ELSE LET fetched == _get_live_output_artifacts_for_node(mlmd_artifacts, node_uid)
            IN /\ artifacts_by_output_key' = fetched
               /\ pc' = IF DOMAIN fetched = {} THEN "collect" ELSE "fetch_events"
               /\ output_keys' = IF DOMAIN fetched = {} THEN <<>> ELSE output_keys
               /\ UNCHANGED <<events, result, index, logged, clean_pass>>
  /\ UNCHANGED <<store_vars, fs, node_outputs, node_uid, gc_artifacts, gc_called,
                 fs_calls, store_writes, passes, expired, interrupts>>
  /\ UNCHANGED <<pe_vars, node_pass>>

\* Lines 287-295: the events of all fetched artifacts, read once.
FetchEvents ==
  /\ pc = "fetch_events"
  /\ store_reads' = store_reads + 1
  /\ \E ok \in BOOLEAN :
       IF ~ok THEN Caught("StoreError")
       ELSE LET dedupped_artifact_ids ==
                  UNION {{artifacts_by_output_key[k][i].id :
                            i \in 1..Len(artifacts_by_output_key[k])} :
                         k \in DOMAIN artifacts_by_output_key}
            IN /\ events' = get_events_by_artifact_ids(mlmd_events, dedupped_artifact_ids)
               /\ pc' = "select"
               /\ UNCHANGED <<artifacts_by_output_key, output_keys, result, index, logged,
                              clean_pass>>
  /\ UNCHANGED <<store_vars, fs, node_outputs, node_uid, gc_artifacts, gc_called,
                 fs_calls, store_writes, passes, expired, interrupts>>
  /\ UNCHANGED <<pe_vars, node_pass>>

\* Lines 296-307: one turn of the loop over the policies.
SelectForOutputKey ==
  /\ pc = "select"
  /\ \E output_key \in {Head(output_keys)}, rest \in {Tail(output_keys)} :
       IF output_key \notin DOMAIN artifacts_by_output_key
         THEN /\ output_keys' = rest
              /\ pc' = IF rest = <<>> THEN "collect" ELSE "select"
              /\ UNCHANGED <<artifacts_by_output_key, events, result, index,
                             logged, store_reads, clean_pass>>
         ELSE \E r \in {_artifacts_to_garbage_collect(
                          mlmd_executions, used_in_pipeline_groups,
                          artifacts_by_output_key[output_key], events,
                          node_outputs[output_key].garbage_collection_policy)} :
                /\ store_reads' = IF r.read THEN store_reads + 1 ELSE store_reads
                /\ \E ok \in IF r.read THEN BOOLEAN ELSE {TRUE} :
                     IF ~ok THEN Caught("StoreError")
                     ELSE IF r.exc # "none" THEN Caught(r.exc)
                     ELSE /\ result' = result \o r.ret
                          /\ output_keys' = rest
                          /\ pc' = IF rest = <<>> THEN "collect" ELSE "select"
                          /\ UNCHANGED <<artifacts_by_output_key, events, index, logged,
                                         clean_pass>>
  /\ UNCHANGED <<store_vars, fs, node_outputs, node_uid, gc_artifacts, gc_called,
                 fs_calls, store_writes, passes, expired, interrupts>>
  /\ UNCHANGED <<pe_vars, node_pass>>

\* Lines 365 and 325-326: garbage_collect_artifacts is entered with the result.
GarbageCollectArtifacts ==
  /\ pc = "collect"
  /\ gc_called' = TRUE
  /\ gc_artifacts' = result
  /\ IF result = <<>>
       THEN pc' = "returned" /\ clean_pass' = TRUE /\ ResetLocals
       ELSE /\ pc' = "delete" /\ index' = 1
            /\ UNCHANGED <<artifacts_by_output_key, events, output_keys, result, clean_pass>>
  /\ UNCHANGED <<store_vars, fs, node_outputs, node_uid, logged, fs_calls,
                 store_reads, store_writes, passes, expired, interrupts>>
  /\ UNCHANGED <<pe_vars, node_pass>>

\* Mutant: the batch write follows the first artifact.
AfterArtifact_WritesEarly(last) == "put"

\* Lines 327 and 340: the loop takes the next artifact; the write follows the last.
AfterArtifact(last) == IF last THEN "put" ELSE "delete"

\* Lines 327-338: one turn of the loop over the artifacts.
DeleteArtifact ==
  /\ pc = "delete"
  /\ LET artifact == gc_artifacts[index]
         last == index = Len(gc_artifacts)
     IN IF _is_artifact_external(artifact)
          THEN /\ gc_artifacts' = [gc_artifacts EXCEPT ![index] = MarkDeleted(artifact)]
               /\ index' = index + 1
               /\ pc' = AfterArtifact(last)
               /\ UNCHANGED <<fs, fs_calls, logged, artifacts_by_output_key, events,
                              output_keys, result, clean_pass>>
          ELSE \E outcome \in FsOutcomes(fs, artifact.uri) :
                 LET d == _delete_artifact_uri(fs, artifact, outcome)
                 IN /\ fs' = d.files
                    /\ fs_calls' = fs_calls \cup d.calls
                    /\ IF d.exc # "none"
                         THEN Caught(d.exc) /\ UNCHANGED gc_artifacts
                         ELSE /\ gc_artifacts' =
                                   IF d.ret
                                     THEN [gc_artifacts EXCEPT ![index] = MarkDeleted(artifact)]
                                     ELSE gc_artifacts
                              /\ index' = index + 1
                              /\ pc' = AfterArtifact(last)
                              /\ UNCHANGED <<logged, artifacts_by_output_key, events,
                                             output_keys, result, clean_pass>>
  /\ UNCHANGED <<store_vars, node_outputs, node_uid, gc_called, store_reads,
                 store_writes, passes, expired, interrupts>>
  /\ UNCHANGED <<pe_vars, node_pass>>

\* Line 340: the batch write of every artifact handed over.
PutArtifacts ==
  /\ pc = "put"
  /\ store_writes' = store_writes + 1
  /\ \E ok \in BOOLEAN :
       IF ~ok THEN Caught("StoreError") /\ UNCHANGED mlmd_artifacts
       ELSE /\ mlmd_artifacts' = put_artifacts(mlmd_artifacts, gc_artifacts)
            /\ pc' = "returned"
            /\ clean_pass' = \A i \in 1..Len(gc_artifacts) : gc_artifacts[i].state = "DELETED"
            /\ ResetLocals
            /\ UNCHANGED logged
  /\ UNCHANGED <<mlmd_events, mlmd_executions, used_in_pipeline_groups, fs, node_outputs,
                 node_uid, gc_artifacts, gc_called, fs_calls, store_reads, passes, expired,
                 interrupts>>
  /\ UNCHANGED <<pe_vars, node_pass>>

\* ------------------------------------------------------------ the environment
\* Between calls nothing of the last call is left.
ForgetCall ==
  /\ pc' = "idle"
  /\ node_uid' = NodeId
  /\ gc_artifacts' = <<>>
  /\ gc_called' = FALSE /\ logged' = "none" /\ fs_calls' = {}
  /\ store_reads' = 0 /\ store_writes' = 0
  /\ UNCHANGED <<artifacts_by_output_key, events, output_keys, result, index>>

\* The uris kept on storage with a time to live.
ExpirableUris == {1}

\* A uri is removed out of band (TTL) while no pass runs.
ExpireUri(uri) ==
  /\ AtRest
  /\ expired < MaxExpired
  /\ uri \in fs
  /\ fs' = fs \ {uri}
  /\ expired' = expired + 1
  /\ ForgetCall
  /\ UNCHANGED <<store_vars, node_outputs, passes, interrupts, clean_pass, pe_vars, node_pass>>

\* An active execution finishes while no pass runs.
FinishExecution(id) ==
  /\ AtRest
  /\ id \in DOMAIN mlmd_executions
  /\ is_execution_active(mlmd_executions[id])
  /\ mlmd_executions' = [mlmd_executions EXCEPT ![id].last_known_state = "COMPLETE"]
  /\ ForgetCall
  /\ clean_pass' = FALSE
  /\ UNCHANGED <<mlmd_artifacts, mlmd_events, used_in_pipeline_groups, fs, node_outputs,
                 passes, expired, interrupts, pe_vars, node_pass>>

\* The process running a pass stops at any point of the pass; nothing of the
\* call is left, the store and the filesystem stay as the pass left them.
Interrupt ==
  /\ pc \in {"fetch_artifacts", "fetch_events", "select", "collect", "delete", "put"}
  /\ interrupts < MaxInterrupts
  /\ interrupts' = interrupts + 1
  /\ pc' = "idle"
  /\ node_uid' = NodeId
  /\ gc_artifacts' = <<>>
  /\ gc_called' = FALSE /\ logged' = "none" /\ fs_calls' = {}
  /\ store_reads' = 0 /\ store_writes' = 0
  /\ clean_pass' = FALSE
  /\ ResetLocals
  /\ UNCHANGED <<store_vars, fs, node_outputs, passes, expired, pe_vars, node_pass>>

ExecutionStates ==
  {[id \in {1, 2} |-> Execution(id, st[id])] : st \in [{1, 2} -> {"RUNNING", "COMPLETE"}]}
  \cup {[id \in {1} |-> Execution(id, st)] : st \in {"RUNNING", "COMPLETE"}}

\* Execution 1 produced every artifact; execution 2 may consume any of them.
OutputEvents == {Event(a, 1, "OUTPUT") : a \in ArtifactIds}

InputEventSets == SUBSET {Event(a, 2, "INPUT") : a \in ArtifactIds}

\* The nodes whose passes may run side by side.
Nodes == {"trainer", "evaluator"}

\* The locals of a pass that has not started.
IdlePass ==
  [pc |-> "idle", artifacts_by_output_key |-> <<>>, events |-> {}, output_keys |-> <<>>,
   result |-> <<>>, gc_artifacts |-> <<>>, index |-> 0, logged |-> "none"]

NodePassesIdle == node_pass = [n \in Nodes |-> IdlePass]

PolicyHarnessOff ==
  /\ pe_artifacts = <<>>
  /\ pe_policy = UnsetPolicy
  /\ pe_result = Return(<<>>)
  /\ pe_worklists = <<>>
  /\ pe_pc = "off"

Init ==
  /\ \E external \in SUBSET {1, 3} :
       mlmd_artifacts = [id \in ArtifactIds |-> StoredArtifact(id, id \in external)]
  /\ \E inputs \in InputEventSets : mlmd_events = OutputEvents \cup inputs
  /\ mlmd_executions \in ExecutionStates
  /\ used_in_pipeline_groups \in {{}, {1}}
  /\ fs = ArtifactIds
  /\ \E model \in {OutputSpec(FALSE, UnsetPolicy)} \cup {OutputSpec(TRUE, p) : p \in ModelPolicies},
        metrics \in {OutputSpec(FALSE, UnsetPolicy)}
                      \cup {OutputSpec(TRUE, p) : p \in MetricsPolicies} :
       node_outputs = [model |-> model, metrics |-> metrics]
  /\ pc = "idle"
  /\ node_uid = NodeId
  /\ artifacts_by_output_key = <<>> /\ events = {} /\ output_keys = <<>>
  /\ result = <<>> /\ gc_artifacts = <<>> /\ index = 0
  /\ gc_called = FALSE /\ logged = "none" /\ fs_calls = {}
  /\ store_reads = 0 /\ store_writes = 0
  /\ passes = 0 /\ expired = 0 /\ interrupts = 0 /\ clean_pass = FALSE
  /\ PolicyHarnessOff
  /\ NodePassesIdle

Next ==
  \/ \E uid \in NodeUids : RunGarbageCollection(uid)
  \/ FetchLiveArtifacts
  \/ FetchEvents
  \/ SelectForOutputKey
  \/ GarbageCollectArtifacts
  \/ DeleteArtifact
  \/ PutArtifacts
  \/ \E uri \in ExpirableUris : ExpireUri(uri)
  \/ \E id \in ExecutionIds : FinishExecution(id)
  \/ Interrupt

vars == <<gc_vars, pe_vars, node_pass>>

Spec == Init /\ [][Next]_vars

\* ------------------------------------ executions starting during a pass
\* The scheduler starts an execution at any moment, also while a pass runs: the
\* execution is stored as RUNNING with an input event on a LIVE artifact whose
\* uri exists. The pass holds no lock and takes no part in the step.
StartExecution(id, artifact_id) ==
  /\ id \notin DOMAIN mlmd_executions
  /\ mlmd_artifacts[artifact_id].state = "LIVE"
  /\ artifact_id \in fs
  /\ mlmd_executions' =
       [x \in DOMAIN mlmd_executions \cup {id} |->
          IF x = id THEN Execution(id, "RUNNING") ELSE mlmd_executions[x]]
  /\ mlmd_events' = mlmd_events \cup {Event(artifact_id, id, "INPUT")}
  /\ UNCHANGED <<mlmd_artifacts, used_in_pipeline_groups, fs, node_outputs, pc, node_uid,
                 local_vars, history_vars, passes, expired, interrupts, clean_pass, pe_vars, node_pass>>

\* Execution 1 produced every artifact; no execution has consumed one yet.
InitExecutions ==
  /\ Init
  /\ mlmd_events = OutputEvents
  /\ DOMAIN mlmd_executions = {1}
  /\ used_in_pipeline_groups = {}

NextExecutions ==
  \/ RunGarbageCollection(NodeId)
  \/ FetchLiveArtifacts
  \/ FetchEvents
  \/ SelectForOutputKey
  \/ GarbageCollectArtifacts
  \/ DeleteArtifact
  \/ PutArtifacts
  \/ \E id \in ExecutionIds, artifact_id \in ArtifactIds : StartExecution(id, artifact_id)

SpecExecutions == InitExecutions /\ [][NextExecutions]_vars

\* ------------------------------------------------------ passes without end
\* The scheduler calls the pass again and again; `passes` counts the calls up
\* to MaxPasses.
RetryGarbageCollection ==
  /\ passes' = IF passes < MaxPasses THEN passes + 1 ELSE passes
  /\ StartPass(NodeId)

\* No artifact is consumed; the policy of "model" can be evaluated.
InitRetry ==
  /\ Init
  /\ mlmd_events = OutputEvents
  /\ DOMAIN mlmd_executions = {1}
  /\ used_in_pipeline_groups = {}
  /\ node_outputs["model"].garbage_collection_policy
       \in {KeepMostRecentlyPublished(0), KeepMostRecentlyPublished(1)}

NextRetry ==
  \/ RetryGarbageCollection
  \/ FetchLiveArtifacts
  \/ FetchEvents
  \/ SelectForOutputKey
  \/ GarbageCollectArtifacts
  \/ DeleteArtifact
  \/ PutArtifacts

\* The step of the pass went through without an exception.
StepSucceeds == logged' = "none"

\* The loop turn of the artifact ends with its record marked DELETED.
RemovalSucceeds(id) ==
  /\ DeleteArtifact
  /\ gc_artifacts[index].id = id
  /\ pc' \in {"delete", "put"}
  /\ gc_artifacts'[index].state = "DELETED"

\* Passes are repeated and each goes on to its end; no store call and no
\* removal of a uri fails for ever.
FairRetry ==
  /\ WF_vars(RetryGarbageCollection)
  /\ WF_vars(GarbageCollectArtifacts)
  /\ WF_vars(DeleteArtifact)
  /\ SF_vars(FetchLiveArtifacts /\ StepSucceeds)
  /\ SF_vars(FetchEvents /\ StepSucceeds)
  /\ SF_vars(SelectForOutputKey /\ StepSucceeds)
  /\ SF_vars(PutArtifacts /\ StepSucceeds)
  /\ \A id \in ArtifactIds : SF_vars(RemovalSucceeds(id))

SpecRetry == InitRetry /\ [][NextRetry]_vars /\ FairRetry

\* ------------------------------------------- passes of two nodes side by side
\* The node that published each artifact: artifact 2 is an output of
\* "evaluator", artifacts 1 and 3 are outputs of "trainer". Both nodes declare
\* the output keys of node_outputs.
ProducerNode(id) == IF id = 2 THEN "evaluator" ELSE "trainer"

\* Mutant: the live artifacts of every node are returned.
LiveOutputArtifactsOfNode_AnyNode(store_artifacts, node) ==
  LET live(key) ==
        SelectSeq([i \in 1..Cardinality(ArtifactIds) |-> store_artifacts[i]],
                  LAMBDA a: a.state = "LIVE" /\ OutputKeyOf(a.id) = key)
      keys == {OutputKeys[k] : k \in 1..Len(OutputKeys)}
  IN [key \in {k \in keys : live(k) # <<>>} |-> live(key)]

\* Lines 40-54 for the node whose pass runs: the LIVE output artifacts of that
\* node under each output key that has any.
LiveOutputArtifactsOfNode(store_artifacts, node) ==
  LET live(key) ==
        SelectSeq([i \in 1..Cardinality(ArtifactIds) |-> store_artifacts[i]],
                  LAMBDA a: /\ a.state = "LIVE" /\ OutputKeyOf(a.id) = key
                            /\ ProducerNode(a.id) = node)
      keys == {OutputKeys[k] : k \in 1..Len(OutputKeys)}
  IN [key \in {k \in keys : live(k) # <<>>} |-> live(key)]

SetPass(n, locals) == node_pass' = [node_pass EXCEPT ![n] = locals]

\* The single pass of Spec stays off while the passes of the nodes run.
SinglePassOff ==
  UNCHANGED <<pc, node_uid, local_vars, history_vars, passes, expired, interrupts,
              clean_pass, pe_vars>>

\* Lines 366-367 in the pass of node n.
NodeCaught(n, kind) == SetPass(n, [IdlePass EXCEPT !.pc = "returned", !.logged = kind])

\* Lines 343-359 and 267-274
NodeRun(n) ==
  /\ node_pass[n].pc = "idle"
  /\ LET policies_by_output_key == _get_garbage_collection_policies_for_node(node_outputs)
     IN SetPass(n, [IdlePass EXCEPT
                      !.output_keys = policies_by_output_key,
                      !.pc = IF policies_by_output_key = <<>> THEN "collect"
                                                              ELSE "fetch_artifacts"])
  /\ UNCHANGED <<store_vars, fs, node_outputs>>
  /\ SinglePassOff

\* Lines 276-280
NodeFetchLiveArtifacts(n) ==
  /\ node_pass[n].pc = "fetch_artifacts"
  /\ LET fetched == LiveOutputArtifactsOfNode(mlmd_artifacts, n)
     IN SetPass(n, [node_pass[n] EXCEPT
                      !.artifacts_by_output_key = fetched,
                      !.pc = IF DOMAIN fetched = {} THEN "collect" ELSE "fetch_events",
                      !.output_keys = IF DOMAIN fetched = {} THEN <<>> ELSE @])
  /\ UNCHANGED <<store_vars, fs, node_outputs>>
  /\ SinglePassOff

\* Lines 287-295
NodeFetchEvents(n) ==
  /\ node_pass[n].pc = "fetch_events"
  /\ LET by_key == node_pass[n].artifacts_by_output_key
         dedupped_artifact_ids ==
           UNION {{by_key[k][i].id : i \in 1..Len(by_key[k])} : k \in DOMAIN by_key}
     IN SetPass(n, [node_pass[n] EXCEPT
                      !.events = get_events_by_artifact_ids(mlmd_events,
                                                            dedupped_artifact_ids),
                      !.pc = "select"])
  /\ UNCHANGED <<store_vars, fs, node_outputs>>
  /\ SinglePassOff

\* Lines 296-307
NodeSelect(n) ==
  /\ node_pass[n].pc = "select"
  /\ \E p \in {node_pass[n]} :
       \E output_key \in {Head(p.output_keys)}, rest \in {Tail(p.output_keys)} :
         IF output_key \notin DOMAIN p.artifacts_by_output_key
           THEN SetPass(n, [p EXCEPT !.output_keys = rest,
                                     !.pc = IF rest = <<>> THEN "collect" ELSE "select"])
           ELSE \E r \in {_artifacts_to_garbage_collect(
                            mlmd_executions, used_in_pipeline_groups,
                            p.artifacts_by_output_key[output_key], p.events,
                            node_outputs[output_key].garbage_collection_policy)} :
                  IF r.exc # "none" THEN NodeCaught(n, r.exc)
                  ELSE SetPass(n, [p EXCEPT
                                     !.result = @ \o r.ret,
                                     !.output_keys = rest,
                                     !.pc = IF rest = <<>> THEN "collect" ELSE "select"])
  /\ UNCHANGED <<store_vars, fs, node_outputs>>
  /\ SinglePassOff

\* Lines 365 and 325-326
NodeCollect(n) ==
  /\ node_pass[n].pc = "collect"
  /\ \E p \in {node_pass[n]} :
       SetPass(n, IF p.result = <<>>
                    THEN [IdlePass EXCEPT !.pc = "returned"]
                    ELSE [p EXCEPT !.gc_artifacts = p.result, !.index = 1,
                                   !.pc = "delete"])
  /\ UNCHANGED <<store_vars, fs, node_outputs>>
  /\ SinglePassOff

\* Lines 327-338
NodeDelete(n) ==
  /\ node_pass[n].pc = "delete"
  /\ \E p \in {node_pass[n]} :
       LET artifact == p.gc_artifacts[p.index]
           last == p.index = Len(p.gc_artifacts)
           marked == [p EXCEPT !.gc_artifacts[p.index] = MarkDeleted(artifact),
                               !.index = @ + 1, !.pc = AfterArtifact(last)]
           skipped == [p EXCEPT !.index = @ + 1, !.pc = AfterArtifact(last)]
       IN IF _is_artifact_external(artifact)
            THEN SetPass(n, marked) /\ UNCHANGED fs
            ELSE \E outcome \in FsOutcomes(fs, artifact.uri) :
                   LET d == _delete_artifact_uri(fs, artifact, outcome)
                   IN /\ fs' = d.files
                      /\ IF d.exc # "none" THEN NodeCaught(n, d.exc)
                         ELSE SetPass(n, IF d.ret THEN marked ELSE skipped)
  /\ UNCHANGED <<store_vars, node_outputs>>
  /\ SinglePassOff

\* Line 340; the records written stay in the locals for inspection.
NodePut(n) ==
  /\ node_pass[n].pc = "put"
  /\ mlmd_artifacts' = put_artifacts(mlmd_artifacts, node_pass[n].gc_artifacts)
  /\ SetPass(n, [node_pass[n] EXCEPT !.pc = "returned"])
  /\ UNCHANGED <<mlmd_events, mlmd_executions, used_in_pipeline_groups, fs, node_outputs>>
  /\ SinglePassOff

\* Every artifact is LIVE with its uri in place; execution 1 produced them all,
\* execution 2 may consume the artifact of "evaluator".
InitNodes ==
  /\ \E external \in SUBSET {3} :
       mlmd_artifacts = [id \in ArtifactIds |-> StoredArtifact(id, id \in external)]
  /\ \E inputs \in SUBSET {Event(2, 2, "INPUT")} : mlmd_events = OutputEvents \cup inputs
  /\ mlmd_executions \in {x \in ExecutionStates : DOMAIN x = {1, 2}}
  /\ used_in_pipeline_groups = {}
  /\ fs = ArtifactIds
  /\ \E model \in {OutputSpec(TRUE, KeepMostRecentlyPublished(n)) : n \in {0, 1}},
        metrics \in {OutputSpec(FALSE, UnsetPolicy),
                     OutputSpec(TRUE, KeepMostRecentlyPublished(0))} :
       node_outputs = [model |-> model, metrics |-> metrics]
  /\ pc = "off" /\ node_uid = NodeId
  /\ artifacts_by_output_key = <<>> /\ events = {} /\ output_keys = <<>>
  /\ result = <<>> /\ gc_artifacts = <<>> /\ index = 0
  /\ gc_called = FALSE /\ logged = "none" /\ fs_calls = {}
  /\ store_reads = 0 /\ store_writes = 0
  /\ passes = 0 /\ expired = 0 /\ interrupts = 0 /\ clean_pass = FALSE
  /\ PolicyHarnessOff
  /\ NodePassesIdle

NextNodes ==
  \E n \in Nodes :
    \/ NodeRun(n)
    \/ NodeFetchLiveArtifacts(n)
    \/ NodeFetchEvents(n)
    \/ NodeSelect(n)
    \/ NodeCollect(n)
    \/ NodeDelete(n)
    \/ NodePut(n)

SpecNodes == InitNodes /\ [][NextNodes]_vars

\* ------------------------------------------------- policy evaluator harness

KeepOrders ==
  {"KEEP_ORDER_UNSPECIFIED", "KEEP_ORDER_LARGEST", "KEEP_ORDER_SMALLEST",
   "KEEP_ORDER_UNKNOWN"}

\* Artifacts 1..n that differ in creation time only.
TimedArtifacts ==
  UNION {{[i \in 1..n |-> Artifact(i, f[i], EmptyMap, EmptyMap)] :
            f \in [1..n -> 1..MaxTime]} : n \in 0..MaxArtifacts}

\* The ways an artifact carries "span": not at all, as a typed integer, as a
\* custom string, or as both a typed and a custom integer.
SpanChoices ==
  {[properties |-> EmptyMap, custom_properties |-> EmptyMap]}
  \cup {[properties |-> [span |-> IntValue(v)], custom_properties |-> EmptyMap] :
          v \in 1..MaxVal}
  \cup {[properties |-> EmptyMap, custom_properties |-> [span |-> StrValue(1)]]}
  \cup {[properties |-> [span |-> IntValue(1)],
         custom_properties |-> [span |-> IntValue(MaxVal)]]}

SpanArtifacts ==
  UNION {{[i \in 1..n |-> Artifact(i, 1, f[i].properties, f[i].custom_properties)] :
            f \in [1..n -> SpanChoices]} : n \in 0..MaxArtifacts}

\* Artifacts with an optional typed "span" and an optional custom "version".
NestedValues == {NoneValue, IntValue(1), IntValue(2)}

MapOf(name, value) ==
  IF value = NoneValue THEN EmptyMap ELSE [n \in {name} |-> value]

NestedArtifacts ==
  UNION {{[i \in 1..n |-> Artifact(i, 1, MapOf("span", s[i]), MapOf("version", w[i]))] :
            s \in [1..n -> NestedValues], w \in [1..n -> NestedValues]} :
         n \in 0..MaxNested}

\* keep_order is not looked at when keep_num <= 0.
NestedGroupings(name) ==
  {Grouping(name, 0, "KEEP_ORDER_LARGEST")}
  \cup {Grouping(name, k, o) :
          k \in {1, 2},
          o \in {"KEEP_ORDER_UNSPECIFIED", "KEEP_ORDER_LARGEST", "KEEP_ORDER_SMALLEST"}}

\* Artifacts with a typed "span" and an optional custom "version" that is an
\* integer on some artifacts and a string on others.
MixedValues == {NoneValue, IntValue(1), StrValue(1), StrValue(2)}

MixedArtifacts ==
  UNION {{[i \in 1..n |-> Artifact(i, 1, MapOf("span", IntValue(s[i])),
                                   MapOf("version", w[i]))] :
            s \in [1..n -> {1, 2}], w \in [1..n -> MixedValues]} :
         n \in 0..MaxMixed}

MixedGroupings ==
  {<<Grouping("span", k1, "KEEP_ORDER_LARGEST"), Grouping("version", k2, "KEEP_ORDER_LARGEST")>> :
     k1 \in {0, 1}, k2 \in {0, 1}}

SingleGroupings ==
  {Grouping("span", -1, "KEEP_ORDER_LARGEST")}
  \cup {Grouping("span", k, o) : k \in 0..MaxKeep, o \in KeepOrders}

PolicyInputs ==
  \/ /\ pe_artifacts \in TimedArtifacts
     /\ pe_policy \in {KeepMostRecentlyPublished(n) : n \in -1..MaxNum} \cup {UnsetPolicy}
  \/ /\ pe_artifacts \in SpanArtifacts
     /\ pe_policy \in {KeepPropertyValueGroups(<<g>>) : g \in SingleGroupings}
  \/ /\ pe_artifacts \in NestedArtifacts
     /\ pe_policy \in {KeepPropertyValueGroups(<<>>)}
          \cup {KeepPropertyValueGroups(<<g1, g2>>) :
                  g1 \in NestedGroupings("span"), g2 \in NestedGroupings("version")}
  \/ /\ pe_artifacts \in MixedArtifacts
     /\ pe_policy \in {KeepPropertyValueGroups(gs) : gs \in MixedGroupings}

\* The node pass at rest while the evaluator is exercised.
NodePassOff ==
  /\ mlmd_artifacts = <<>> /\ mlmd_events = {} /\ mlmd_executions = <<>>
  /\ used_in_pipeline_groups = {} /\ fs = {} /\ node_outputs = <<>>
  /\ pc = "off" /\ node_uid = NodeId
  /\ artifacts_by_output_key = <<>> /\ events = {} /\ output_keys = <<>>
  /\ result = <<>> /\ gc_artifacts = <<>> /\ index = 0
  /\ gc_called = FALSE /\ logged = "none" /\ fs_calls = {}
  /\ store_reads = 0 /\ store_writes = 0
  /\ passes = 0 /\ expired = 0 /\ interrupts = 0 /\ clean_pass = FALSE

InitPolicy ==
  /\ PolicyInputs
  /\ NodePassOff
  /\ NodePassesIdle
  /\ pe_result = Return(<<>>)
  /\ pe_worklists = <<>>
  /\ pe_pc = "ready"

\* The worklist of artifact groups after each grouping of the policy (the
\* successive values of artifact_groups at line 187).
Worklists(artifacts, policy) ==
  LET groupings == policy.keep_property_value_groups.groupings IN
  [n \in 1..Len(groupings) |->
     ApplyGroupings(<<artifacts>>, SubSeq(groupings, 1, n), 1)]

Evaluate ==
  /\ pe_pc = "ready"
  /\ pe_result' = _artifacts_to_garbage_collect_for_policy(pe_artifacts, pe_policy)
  /\ pe_worklists' = Worklists(pe_artifacts, pe_policy)
  /\ pe_pc' = "done"
  /\ UNCHANGED <<pe_artifacts, pe_policy>>
  /\ UNCHANGED <<gc_vars, node_pass>>

NextPolicy == Evaluate

SpecPolicy == InitPolicy /\ [][NextPolicy]_vars

\* ===================================================== policy evaluator claims
pe_done == pe_pc = "done"

pe_returned == pe_result.exc = "none"

pe_count == Len(pe_artifacts)

pe_num == pe_policy.keep_most_recently_published.num_artifacts

pe_groupings == pe_policy.keep_property_value_groups.groupings

IsMostRecentlyPublished == pe_policy.policy = "keep_most_recently_published"

IsPropertyValueGroups == pe_policy.policy = "keep_property_value_groups"

TimeOf(i) == pe_artifacts[i].create_time_since_epoch

\* Ids of the artifacts in the evaluator's delete set.
DeleteIds == {pe_result.ret[i].id : i \in 1..Len(pe_result.ret)}

\* The delete set lists each of its artifacts once, in input order.
DeleteSetInOrder ==
  pe_result.ret = SelectSeq(pe_artifacts, LAMBDA a: a.id \in DeleteIds)

Survivors == {i \in 1..pe_count : pe_artifacts[i].id \notin DeleteIds}

\* The k-th smallest creation time, counted with multiplicity (k = 1: the minimum).
KthSmallestTime(k) ==
  CHOOSE c \in {TimeOf(i) : i \in 1..pe_count} :
    /\ Cardinality({i \in 1..pe_count : TimeOf(i) < c}) < k
    /\ k <= Cardinality({i \in 1..pe_count : TimeOf(i) <= c})

\* Delete set = the artifacts strictly older than the k-th smallest time.
DeletesBelowKthSmallest(k) ==
  /\ \A i \in 1..pe_count :
       pe_artifacts[i].id \in DeleteIds <=> TimeOf(i) < KthSmallestTime(k)
  /\ DeleteSetInOrder

\* C4: KeepMostRecentlyPublished(n), n >= 1, on at most n artifacts deletes nothing.
C4_NoDeleteWhenCountAtMostN ==
  (pe_done /\ IsMostRecentlyPublished /\ pe_num >= 1 /\ pe_count <= pe_num)
    => pe_result = Return(<<>>)

C4_Witness ==
  /\ pe_done /\ IsMostRecentlyPublished
  /\ pe_num = 2 /\ pe_count = 2
  /\ TimeOf(1) # TimeOf(2)
  /\ pe_result = Return(<<>>)

\* C5 as stated: KeepMostRecentlyPublished(n), n <= 0, deletes nothing.
C5_Original ==
  (pe_done /\ IsMostRecentlyPublished /\ pe_num <= 0)
    => (pe_returned /\ pe_result.ret = <<>>)

\* C5 amended: KeepMostRecentlyPublished(n), n <= 0, keeps nothing: the delete
\* set is the whole artifact set, whatever its size.
C5_DeletesAllWhenNNotPositive ==
  (pe_done /\ IsMostRecentlyPublished /\ pe_num <= 0)
    => pe_result = Return(pe_artifacts)

C5_Witness ==
  /\ pe_done /\ IsMostRecentlyPublished
  /\ pe_num = 0 /\ pe_count = 3
  /\ DeleteIds = {1, 2, 3}

\* C6 as stated: for count > n >= 1 the cutoff is the (count-n)-th smallest
\* creation time; the delete set is the artifacts strictly below it.
C6_Original ==
  (pe_done /\ IsMostRecentlyPublished /\ pe_num >= 1 /\ pe_count > pe_num)
    => DeletesBelowKthSmallest(pe_count - pe_num)

\* C6 amended: for count > n >= 1 the cutoff is the (count-n+1)-th smallest
\* creation time (the n-th largest), counted with multiplicity; the delete set
\* is exactly the artifacts strictly below it, the survivors those at or above.
C6_CutoffIsNthLargest ==
  (pe_done /\ IsMostRecentlyPublished /\ pe_num >= 1 /\ pe_count > pe_num)
    => /\ pe_returned
       /\ DeletesBelowKthSmallest(pe_count - pe_num + 1)
       /\ \A i \in Survivors : TimeOf(i) >= KthSmallestTime(pe_count - pe_num + 1)

\* Times 1,2,2,3 and n = 2: the cutoff is 2 and only the artifact at 1 goes.
C6_Witness ==
  /\ pe_done /\ IsMostRecentlyPublished
  /\ pe_num = 2 /\ pe_count = 4
  /\ [i \in 1..4 |-> TimeOf(i)] = <<1, 2, 2, 3>>
  /\ DeleteIds = {1}

\* C7: for count > n >= 1, artifacts of equal creation time share their fate,
\* at least n artifacts survive, and exactly n when all times are distinct.
C7_TiesKeptTogether ==
  (pe_done /\ IsMostRecentlyPublished /\ pe_num >= 1 /\ pe_count > pe_num)
    => /\ \A i, j \in 1..pe_count :
            TimeOf(i) = TimeOf(j)
              => (pe_artifacts[i].id \in DeleteIds <=> pe_artifacts[j].id \in DeleteIds)
       /\ Cardinality(Survivors) >= pe_num
       /\ (\A i, j \in 1..pe_count : i # j => TimeOf(i) # TimeOf(j))
            => Cardinality(Survivors) = pe_num

\* A tie at the cutoff: more than n survive while something is deleted.
C7_Witness ==
  /\ pe_done /\ IsMostRecentlyPublished
  /\ pe_num >= 1 /\ pe_count > pe_num
  /\ Cardinality(Survivors) > pe_num
  /\ DeleteIds # {}
  /\ \E i, j \in Survivors : i # j /\ TimeOf(i) = TimeOf(j)

\* ------------------------------------------------- KeepPropertyValueGroups
SingleGrouping == IsPropertyValueGroups /\ Len(pe_groupings) = 1

\* The value of property `name` carried by the i-th input artifact.
ValueOf(i, name) == _get_property_value(pe_artifacts[i], name)

\* The distinct non-null values of `name` among the artifacts at positions I.
NonNullValues(I, name) == {ValueOf(i, name) : i \in I} \ {NoneValue}

LargestValues(I, name, k) ==
  {v \in NonNullValues(I, name) :
     Cardinality({w \in NonNullValues(I, name) : w.v > v.v}) < k}

SmallestValues(I, name, k) ==
  {v \in NonNullValues(I, name) :
     Cardinality({w \in NonNullValues(I, name) : w.v < v.v}) < k}

\* Non-null values of more than one python type occur for `name`.
MixedTypes(name) ==
  \E v, w \in NonNullValues(1..pe_count, name) : v.t # w.t

\* C8: one grouping {p, k >= 1, LARGEST}: an artifact is deleted iff its
\* p-value is not among the k largest distinct non-null values, an artifact
\* without p-value iff at least k distinct non-null values exist. Evaluation
\* fails only on p-values of mixed types.
C8_SingleGroupingLargest ==
  (pe_done /\ SingleGrouping /\ pe_groupings[1].keep_num >= 1
     /\ pe_groupings[1].keep_order = "KEEP_ORDER_LARGEST")
    => LET p == pe_groupings[1].property_name
           k == pe_groupings[1].keep_num
           All == 1..pe_count
       IN /\ pe_returned <=> ~MixedTypes(p)
          /\ pe_returned =>
               /\ \A i \in All :
                    pe_artifacts[i].id \in DeleteIds <=>
                      IF ValueOf(i, p) = NoneValue
                        THEN Cardinality(NonNullValues(All, p)) >= k
                        ELSE ValueOf(i, p) \notin LargestValues(All, p, k)
               /\ DeleteSetInOrder

\* Spans 1,1,2,3 with keep_num 1: the span-3 artifact stays, the others go.
C8_Witness ==
  /\ pe_done /\ SingleGrouping /\ pe_count = 4
  /\ pe_groupings[1] = Grouping("span", 1, "KEEP_ORDER_LARGEST")
  /\ [i \in 1..4 |-> ValueOf(i, "span")]
       = <<IntValue(1), IntValue(1), IntValue(2), IntValue(3)>>
  /\ pe_returned /\ DeleteIds = {1, 2, 3}

\* The policy with every unspecified keep_order spelled KEEP_ORDER_LARGEST.
WithLargestForUnspecified(policy) ==
  LET gs == policy.keep_property_value_groups.groupings IN
  KeepPropertyValueGroups(
    [n \in 1..Len(gs) |->
       IF gs[n].keep_order = "KEEP_ORDER_UNSPECIFIED"
         THEN Grouping(gs[n].property_name, gs[n].keep_num, "KEEP_ORDER_LARGEST")
         ELSE gs[n]])

\* C9: with keep_num k >= 1, KEEP_ORDER_SMALLEST keeps the artifacts whose value
\* is among the k smallest distinct non-null values and deletes the other
\* non-null ones; KEEP_ORDER_UNSPECIFIED gives the result of KEEP_ORDER_LARGEST
\* (the k largest values) at every level of the policy.
C9_SmallestAndUnspecified ==
  /\ (pe_done /\ SingleGrouping /\ pe_groupings[1].keep_num >= 1
        /\ pe_groupings[1].keep_order = "KEEP_ORDER_SMALLEST" /\ pe_returned)
       => LET p == pe_groupings[1].property_name
              k == pe_groupings[1].keep_num
          IN \A i \in 1..pe_count :
               ValueOf(i, p) # NoneValue =>
                 (pe_artifacts[i].id \notin DeleteIds
                    <=> ValueOf(i, p) \in SmallestValues(1..pe_count, p, k))
  /\ (pe_done /\ SingleGrouping /\ pe_groupings[1].keep_num >= 1
        /\ pe_groupings[1].keep_order = "KEEP_ORDER_UNSPECIFIED" /\ pe_returned)
       => LET p == pe_groupings[1].property_name
              k == pe_groupings[1].keep_num
          IN \A i \in 1..pe_count :
               ValueOf(i, p) # NoneValue =>
                 (pe_artifacts[i].id \notin DeleteIds
                    <=> ValueOf(i, p) \in LargestValues(1..pe_count, p, k))
  /\ (pe_done /\ IsPropertyValueGroups)
       => pe_result = _artifacts_not_kept_by_property_value_groups(
                        pe_artifacts,
                        WithLargestForUnspecified(pe_policy).keep_property_value_groups)

\* Spans 1,2,3 with keep_num 1, SMALLEST: only the span-1 artifact stays.
C9_Witness ==
  /\ pe_done /\ SingleGrouping /\ pe_count = 3
  /\ pe_groupings[1] = Grouping("span", 1, "KEEP_ORDER_SMALLEST")
  /\ [i \in 1..3 |-> ValueOf(i, "span")] = <<IntValue(1), IntValue(2), IntValue(3)>>
  /\ pe_returned /\ DeleteIds = {2, 3}

\* The worklist a grouping starts from: all artifacts, or the previous result.
WorklistBefore(n) == IF n = 1 THEN <<pe_artifacts>> ELSE pe_worklists[n - 1].ret

MemberIds(groups) ==
  UNION {{groups[g][i].id : i \in 1..Len(groups[g])} : g \in 1..Len(groups)}

\* The buckets of a worklist: one per group and value (None included).
Buckets(groups, name) ==
  UNION {{<<g, _get_property_value(groups[g][i], name)>> : i \in 1..Len(groups[g])} :
           g \in 1..Len(groups)}

\* C10: a grouping with keep_num <= 0 turns every bucket of every current
\* group, the None bucket included, into a surviving group and drops no
\* artifact; a policy with no grouping of positive keep_num deletes nothing
\* (its evaluation fails only on property values of mixed types).
C10_NonPositiveKeepNumKeepsAll ==
  (pe_done /\ IsPropertyValueGroups)
    => /\ \A n \in 1..Len(pe_groupings) :
            (pe_groupings[n].keep_num <= 0 /\ pe_worklists[n].exc = "none")
              => /\ MemberIds(pe_worklists[n].ret) = MemberIds(WorklistBefore(n))
                 /\ Len(pe_worklists[n].ret)
                      = Cardinality(Buckets(WorklistBefore(n),
                                            pe_groupings[n].property_name))
       /\ (\A n \in 1..Len(pe_groupings) : pe_groupings[n].keep_num <= 0)
            => /\ pe_returned => pe_result.ret = <<>>
               /\ ~pe_returned =>
                    \E n \in 1..Len(pe_groupings) : MixedTypes(pe_groupings[n].property_name)

\* Two groupings with keep_num 0 over artifacts some of which lack the span.
C10_Witness ==
  /\ pe_done /\ IsPropertyValueGroups
  /\ Len(pe_groupings) = 2 /\ pe_count = 3
  /\ \A n \in 1..2 : pe_groupings[n].keep_num = 0
  /\ \E i \in 1..3 : ValueOf(i, "span") = NoneValue
  /\ \E i \in 1..3 : ValueOf(i, "span") # NoneValue
  /\ Len(pe_worklists[1].ret) >= 2
  /\ pe_result = Return(<<>>)

\* ------------------------------------------------------ the None bucket (C11)
\* The distinct non-null values of `name` in one artifact group.
GroupValues(group, name) ==
  {_get_property_value(group[i], name) : i \in 1..Len(group)} \ {NoneValue}

\* The positions of a group whose artifact lacks `name`.
NullPositions(group, name) ==
  {i \in 1..Len(group) : _get_property_value(group[i], name) = NoneValue}

\* C11: in a grouping with keep_num k >= 1 the artifacts of a group that lack
\* the property survive the grouping iff the group has fewer than k distinct
\* non-null values; they then form one surviving group of their own. When the
\* group has at least k non-null values they end in the delete set.
C11_NullBucketFillsShortKeepList ==
  (pe_done /\ IsPropertyValueGroups)
    => \A n \in 1..Len(pe_groupings) :
         (pe_groupings[n].keep_num >= 1 /\ pe_worklists[n].exc = "none")
           => LET name == pe_groupings[n].property_name
                  k == pe_groupings[n].keep_num
                  before == WorklistBefore(n)
                  after == pe_worklists[n].ret
              IN \A g \in 1..Len(before) :
                   LET nulls == {before[g][i].id : i \in NullPositions(before[g], name)}
                       few == Cardinality(GroupValues(before[g], name)) < k
                   IN nulls # {} =>
                        /\ few => \E h \in 1..Len(after) :
                                    {after[h][i].id : i \in 1..Len(after[h])} = nulls
                        /\ ~few => /\ nulls \cap MemberIds(after) = {}
                                   /\ pe_returned => nulls \subseteq DeleteIds

\* Partitioned by span, then one version kept: the artifact alone in its span
\* group without a version stays, the one next to a versioned artifact goes.
C11_Witness ==
  /\ pe_done /\ IsPropertyValueGroups /\ pe_count = 3
  /\ pe_groupings = <<Grouping("span", 0, "KEEP_ORDER_LARGEST"),
                      Grouping("version", 1, "KEEP_ORDER_LARGEST")>>
  /\ [i \in 1..3 |-> ValueOf(i, "span")] = <<IntValue(1), IntValue(2), IntValue(2)>>
  /\ [i \in 1..3 |-> ValueOf(i, "version")] = <<NoneValue, IntValue(1), NoneValue>>
  /\ pe_result = Return(<<pe_artifacts[3]>>)


\* ------------------------------------------------------- value types (C12)
\* Non-null values of more than one python type occur for `name` in the group.
MixedTypesInGroup(group, name) ==
  \E v, w \in GroupValues(group, name) : v.t # w.t

\* Some group of the worklist a grouping starts from mixes value types.
MixedTypesInSomeGroup(n) ==
  \E g \in 1..Len(WorklistBefore(n)) :
    MixedTypesInGroup(WorklistBefore(n)[g], pe_groupings[n].property_name)

\* The types differ between groups of the worklist only.
MixedTypesAcrossGroupsOnly(n) ==
  /\ ~MixedTypesInSomeGroup(n)
  /\ \E g, h \in 1..Len(WorklistBefore(n)) :
       \E v \in GroupValues(WorklistBefore(n)[g], pe_groupings[n].property_name),
          w \in GroupValues(WorklistBefore(n)[h], pe_groupings[n].property_name) :
         v.t # w.t

\* The grouping is reached: every grouping before it was applied.
Reached(n) == n = 1 \/ pe_worklists[n - 1].exc = "none"

KnownKeepOrders ==
  \A n \in 1..Len(pe_groupings) :
    pe_groupings[n].keep_num >= 1 => pe_groupings[n].keep_order # "KEEP_ORDER_UNKNOWN"

\* Evaluation fails with ValueError and no delete set whenever a group of a
\* grouping holds non-null values of different types.
FailsOnMixedTypesInGroup ==
  (pe_done /\ IsPropertyValueGroups)
    => \A n \in 1..Len(pe_groupings) :
         (Reached(n) /\ MixedTypesInSomeGroup(n)) => pe_result = Raise("ValueError")

\* C12 as stated: evaluation fails with a configuration error and no delete set
\* whenever one group of a grouping holds non-null values of different types,
\* and does not fail when the types differ between groups of the worklist only.
C12_Original ==
  /\ FailsOnMixedTypesInGroup
  /\ (pe_done /\ IsPropertyValueGroups /\ KnownKeepOrders)
       => ((\A n \in 1..Len(pe_groupings) : Reached(n) => ~MixedTypesInSomeGroup(n))
             => pe_returned)

\* Two span groups, the version an integer in one and a string in the other:
\* evaluation raises although no group mixes types.
C12_Witness ==
  /\ pe_done /\ IsPropertyValueGroups /\ pe_count = 2
  /\ pe_groupings = <<Grouping("span", 0, "KEEP_ORDER_LARGEST"),
                      Grouping("version", 1, "KEEP_ORDER_LARGEST")>>
  /\ [i \in 1..2 |-> ValueOf(i, "span")] = <<IntValue(1), IntValue(2)>>
  /\ [i \in 1..2 |-> ValueOf(i, "version")] = <<IntValue(1), StrValue(1)>>
  /\ MixedTypesAcrossGroupsOnly(2)
  /\ pe_result = Raise("ValueError")


\* ============================================================ node pass claims
\* Some input event links the artifact to an execution the store holds active.
ConsumedByActive(id) ==
  \E e \in mlmd_events :
    /\ e.artifact_id = id /\ e.type = "INPUT"
    /\ e.execution_id \in DOMAIN mlmd_executions
    /\ mlmd_executions[e.execution_id].last_known_state \in {"NEW", "RUNNING"}

\* The artifacts handed to garbage_collect_artifacts by the current call.
HandedIds == {gc_artifacts[i].id : i \in 1..Len(gc_artifacts)}

\* C1: an artifact with an input event to an active execution is never in the
\* set handed to the purge step, and no step of a pass calls the filesystem on
\* its uri, removes its uri or changes its stored record.
C1_InUseNeverPurged ==
  [][
      /\ \A id \in ArtifactIds :
           (ConsumedByActive(id))' => /\ id \notin HandedIds'
                                      /\ \A c \in fs_calls' : c.uri # id
      /\ ~AtRest =>
           \A id \in ArtifactIds :
             ConsumedByActive(id) => /\ (id \in fs) <=> (id \in fs')
                                     /\ mlmd_artifacts'[id] = mlmd_artifacts[id]
    ]_vars

\* Artifact 1 is a policy candidate in use and stays; artifact 2 is purged.
C1_Witness ==
  /\ pc = "returned" /\ gc_called /\ logged = "none"
  /\ node_outputs["model"] = OutputSpec(TRUE, KeepMostRecentlyPublished(0))
  /\ ConsumedByActive(1)
  /\ mlmd_artifacts[1].state = "LIVE" /\ 1 \in fs
  /\ 2 \in HandedIds
  /\ mlmd_artifacts[2].state = "DELETED" /\ 2 \notin fs

\* C2: a call whose node ids match never raises; every exception of candidate
\* selection and purge ends in a normal return.
C2_FailuresContained ==
  /\ node_uid = NodeId => pc # "raised"
  /\ (logged # "none" /\ pc # "idle") => pc = "returned"

\* A missing execution is detected and the call still returns.
C2_Witness ==
  /\ pc = "returned" /\ node_uid = NodeId
  /\ logged = "RuntimeError"
  /\ store_reads = 3

\* C3: a call with mismatching node ids raises at once: no store query, no
\* store write and no filesystem call is made, and the artifact records and
\* the uris are as before the call.
C3_MismatchRaisesFirst ==
  [][
      /\ (passes' # passes /\ node_uid' # NodeId)
           => /\ pc' = "raised"
              /\ UNCHANGED <<mlmd_artifacts, fs>>
      /\ pc' = "raised"
           => /\ node_uid' # NodeId
              /\ store_reads' = 0 /\ store_writes' = 0 /\ fs_calls' = {}
              /\ ~gc_called'
    ]_vars

\* A mismatching call on a node whose policy would delete every artifact.
C3_Witness ==
  /\ pc = "raised" /\ node_uid = "evaluator"
  /\ node_outputs["model"] = OutputSpec(TRUE, KeepMostRecentlyPublished(0))
  /\ node_outputs["metrics"] = OutputSpec(TRUE, KeepMostRecentlyPublished(0))
  /\ mlmd_events = OutputEvents
  /\ \A id \in ArtifactIds : mlmd_artifacts[id].state = "LIVE"
  /\ fs = ArtifactIds

\* ------------------------------------------------------------ purge claims
\* The artifact's external flag is set.
ExternalFlagSet(artifact) ==
  \/ /\ "is_external" \in DOMAIN artifact.properties
     /\ artifact.properties["is_external"] = IntValue(1)
  \/ /\ "is_external" \notin DOMAIN artifact.properties
     /\ "is_external" \in DOMAIN artifact.custom_properties
     /\ artifact.custom_properties["is_external"] = IntValue(1)

\* The step is not the interruption of the pass.
Uninterrupted == interrupts' = interrupts

\* The batch write of the current call went through.
PutSucceeded == pc = "put" /\ pc' = "returned" /\ logged' = "none"

\* C13: the loop turn of an external artifact marks its record DELETED and
\* touches no file, whether or not its uri exists; no filesystem call of a pass
\* names the uri of an external artifact; the batch write stores it as DELETED.
C13_ExternalFlippedWithoutStorage ==
  [][
      /\ (pc = "delete" /\ ExternalFlagSet(gc_artifacts[index]) /\ Uninterrupted)
           => /\ gc_artifacts'[index].state = "DELETED"
              /\ pc' \in {"delete", "put"}
              /\ UNCHANGED <<fs, fs_calls, mlmd_artifacts>>
      /\ \A id \in ArtifactIds :
           ExternalFlagSet(mlmd_artifacts[id]) => \A c \in fs_calls' : c.uri # id
      /\ PutSucceeded
           => \A i \in 1..Len(gc_artifacts) :
                ExternalFlagSet(gc_artifacts[i])
                  => mlmd_artifacts'[gc_artifacts[i].id].state = "DELETED"
    ]_vars

\* External artifact 1, its uri gone before the pass, and external artifact 3,
\* its uri still there, are both DELETED; only the uri of artifact 2 was touched.
C13_Witness ==
  /\ pc = "returned" /\ logged = "none" /\ store_writes = 1
  /\ ExternalFlagSet(mlmd_artifacts[1]) /\ ExternalFlagSet(mlmd_artifacts[3])
  /\ HandedIds = {1, 2, 3}
  /\ \A id \in ArtifactIds : mlmd_artifacts[id].state = "DELETED"
  /\ fs = {3}
  /\ {c.uri : c \in fs_calls} = {2}

\* The loop at line 327 stands at an internal artifact.
AtInternalArtifact == pc = "delete" /\ ~ExternalFlagSet(gc_artifacts[index])

\* _delete_artifact_uri let no exception through in this step.
DeleteReturned == pc' \in {"delete", "put"}

\* C14: the loop turn of an internal artifact marks its record DELETED when the
\* removal of its uri succeeded, and also when the removal raised and the uri
\* does not exist (exists() was asked and found nothing); the batch write
\* stores every record so marked as DELETED.
C14_DeletedWhenRemovedOrMissing ==
  [][
      /\ (AtInternalArtifact /\ DeleteReturned)
           => LET uri == gc_artifacts[index].uri IN
              /\ (uri \in fs /\ uri \notin fs')
                   => /\ gc_artifacts'[index].state = "DELETED"
                      /\ FsCall("exists", uri) \notin fs_calls'
              /\ uri \notin fs
                   => /\ gc_artifacts'[index].state = "DELETED"
                      /\ FsCall("exists", uri) \in fs_calls'
                      /\ fs' = fs
      /\ PutSucceeded
           => \A i \in 1..Len(gc_artifacts) :
                (~ExternalFlagSet(gc_artifacts[i]) /\ gc_artifacts[i].state = "DELETED")
                  => mlmd_artifacts'[gc_artifacts[i].id].state = "DELETED"
    ]_vars

\* The uri of artifact 1 expired before the pass, that of artifact 2 is removed
\* by the pass: both internal artifacts end DELETED.
C14_Witness ==
  /\ pc = "returned" /\ logged = "none" /\ store_writes = 1 /\ expired = 1
  /\ ~ExternalFlagSet(mlmd_artifacts[1]) /\ ~ExternalFlagSet(mlmd_artifacts[2])
  /\ {1, 2} \subseteq HandedIds
  /\ mlmd_artifacts[1].state = "DELETED" /\ mlmd_artifacts[2].state = "DELETED"
  /\ FsCall("exists", 1) \in fs_calls /\ FsCall("remove", 1) \in fs_calls
  /\ FsCall("remove", 2) \in fs_calls /\ FsCall("exists", 2) \notin fs_calls
  /\ 1 \notin fs /\ 2 \notin fs

\* The pass came back from garbage_collect_artifacts without an exception.
PurgeCompleted == pc = "returned" /\ gc_called /\ logged = "none"

\* C15: when the removal of an internal artifact's uri raises and exists()
\* reports the uri still there, the loop goes on with the next artifact without
\* an exception and the record stays LIVE; after the pass that artifact is LIVE
\* in the store with its uri in place, and every other artifact of the set was
\* processed: it is DELETED in the store, an internal one with its uri gone.
C15_FailedRemovalLeavesLive ==
  [][
      /\ (AtInternalArtifact /\ Uninterrupted /\ logged' = "none"
            /\ gc_artifacts[index].uri \in fs /\ gc_artifacts[index].uri \in fs')
           => /\ DeleteReturned
              /\ index' = index + 1
              /\ gc_artifacts' = gc_artifacts
              /\ gc_artifacts[index].state = "LIVE"
              /\ FsCall("exists", gc_artifacts[index].uri) \in fs_calls'
              /\ UNCHANGED <<fs, mlmd_artifacts>>
      /\ PurgeCompleted'
           => \A i \in 1..Len(gc_artifacts') :
                LET a == gc_artifacts'[i] IN
                /\ mlmd_artifacts'[a.id].state = a.state
                /\ a.state = "LIVE"
                     => /\ ~ExternalFlagSet(a) /\ a.uri \in fs'
                        /\ FsCall("exists", a.uri) \in fs_calls'
                /\ a.state = "DELETED" => (ExternalFlagSet(a) \/ a.uri \notin fs')
    ]_vars

\* The removal of uri 1 is refused first; artifact 2 is still removed and
\* marked DELETED, artifact 1 stays LIVE, and the call returns without a log.
C15_Witness ==
  /\ PurgeCompleted /\ store_writes = 1
  /\ [i \in 1..Len(gc_artifacts) |-> gc_artifacts[i].id] = <<1, 2>>
  /\ mlmd_artifacts[1].state = "LIVE" /\ 1 \in fs
  /\ FsCall("rmtree", 1) \in fs_calls /\ FsCall("exists", 1) \in fs_calls
  /\ mlmd_artifacts[2].state = "DELETED" /\ 2 \notin fs

\* Every artifact of the set went through the loop at line 327.
AllProcessed ==
  /\ index = Len(gc_artifacts) + 1
  /\ \A i \in 1..Len(gc_artifacts) :
       \/ ExternalFlagSet(gc_artifacts[i])
       \/ FsCall("isdir", gc_artifacts[i].uri) \in fs_calls

\* C16: a call writes to the store at most once; the write and every change of
\* an artifact record happen in the one step that follows the loop, when every
\* artifact of the set has been processed; once the write was issued the call
\* is over, so no storage operation follows it; a purge of a non-empty set that
\* comes back without an exception has written exactly once.
C16_OneBatchWriteAfterLoop ==
  [][
      /\ store_writes' <= 1
      /\ (store_writes' = store_writes + 1 \/ mlmd_artifacts' # mlmd_artifacts)
           => /\ pc = "put" /\ store_writes = 0 /\ store_writes' = 1
              /\ gc_artifacts # <<>> /\ AllProcessed
              /\ UNCHANGED <<fs, fs_calls>>
      /\ store_writes' = 1 => pc' = "returned"
      /\ (PurgeCompleted' /\ gc_artifacts' # <<>>)
           => /\ store_writes' = 1
              /\ \A i \in 1..Len(gc_artifacts') :
                   mlmd_artifacts'[gc_artifacts'[i].id] = gc_artifacts'[i]
    ]_vars

\* Three artifacts went through the loop, two of them on storage, before the
\* single write stored all three.
C16_Witness ==
  /\ PurgeCompleted /\ store_writes = 1
  /\ Len(gc_artifacts) = 3
  /\ {c.uri : c \in fs_calls} = {2, 3}
  /\ \A i \in 1..3 : mlmd_artifacts[gc_artifacts[i].id].state = "DELETED"

\* No output key of the node has a garbage collection policy.
NoPolicyOnAnyKey ==
  \A k \in DOMAIN node_outputs : ~node_outputs[k].has_garbage_collection_policy

\* C17: a pass on a node without any policy asks the store nothing, hands an
\* empty set to the purge, calls no filesystem operation, writes nothing and
\* leaves records and uris as they are; and any purge handed an empty set
\* returns at once without a filesystem call or a store write.
C17_NoPolicyOrEmptySetIsNoOp ==
  [][
      /\ (NoPolicyOnAnyKey /\ ~AtRest')
           => /\ store_reads' = 0 /\ store_writes' = 0 /\ fs_calls' = {}
              /\ result' = <<>> /\ gc_artifacts' = <<>>
              /\ pc' = "collect"
      /\ (NoPolicyOnAnyKey /\ pc = "collect" /\ Uninterrupted)
           => /\ pc' = "returned" /\ gc_called' /\ logged' = "none"
              /\ store_reads' = 0 /\ store_writes' = 0 /\ fs_calls' = {}
              /\ UNCHANGED <<mlmd_artifacts, fs>>
      /\ (pc = "collect" /\ result = <<>> /\ Uninterrupted)
           => /\ pc' = "returned" /\ gc_called' /\ gc_artifacts' = <<>>
              /\ store_writes' = 0 /\ fs_calls' = {}
              /\ UNCHANGED <<mlmd_artifacts, fs, logged>>
    ]_vars

\* A pass over a node without policies has returned: nothing was asked or done.
C17_Witness ==
  /\ NoPolicyOnAnyKey
  /\ pc = "returned" /\ node_uid = NodeId /\ gc_called /\ passes = 1
  /\ store_reads = 0 /\ store_writes = 0 /\ fs_calls = {}
  /\ \A id \in ArtifactIds : mlmd_artifacts[id].state = "LIVE"
  /\ fs = ArtifactIds

\* A pass whose policies select nothing: the store was read, the purge got an
\* empty set and wrote nothing.
C17_EmptySetReached ==
  /\ ~NoPolicyOnAnyKey
  /\ pc = "returned" /\ gc_called /\ logged = "none" /\ gc_artifacts = <<>>
  /\ store_reads >= 2 /\ store_writes = 0

\* ------------------------------------------------------------- repeated passes
\* C18: once a pass has completed with every removal done and the batch write
\* stored (or with nothing to purge), and no execution changed since, a further
\* pass on the node selects no candidate, calls no filesystem operation, writes
\* nothing to the store and leaves every artifact record and uri as it is; it
\* hands the purge an empty set and is again such a pass.
C18_SecondPassIsNoOp ==
  [][
      clean_pass
        => /\ mlmd_artifacts' = mlmd_artifacts
           /\ expired' = expired => fs' = fs
           /\ ~AtRest' => /\ result' = <<>> /\ gc_artifacts' = <<>>
                          /\ fs_calls' = {} /\ store_writes' = 0
           /\ (~AtRest /\ pc' = "returned" /\ logged' = "none")
                => /\ gc_called' /\ gc_artifacts' = <<>>
                   /\ store_writes' = 0 /\ fs_calls' = {}
                   /\ clean_pass'
    ]_vars

\* KeepMostRecentlyPublished: the first pass purged artifact 2; artifact 1, in
\* use, stayed LIVE; the second pass read the store and found nothing to purge.
C18_Witness ==
  /\ passes = 2 /\ pc = "returned" /\ node_uid = NodeId /\ logged = "none"
  /\ clean_pass /\ gc_called /\ gc_artifacts = <<>>
  /\ node_outputs["model"] = OutputSpec(TRUE, KeepMostRecentlyPublished(0))
  /\ ConsumedByActive(1)
  /\ mlmd_artifacts[1].state = "LIVE" /\ 1 \in fs
  /\ mlmd_artifacts[2].state = "DELETED" /\ 2 \notin fs
  /\ store_reads = 3 /\ store_writes = 0 /\ fs_calls = {}

\* KeepPropertyValueGroups: the first pass purged the artifact of span 2; the
\* second pass found nothing to purge.
C18_GroupsReached ==
  /\ passes = 2 /\ pc = "returned" /\ node_uid = NodeId /\ logged = "none"
  /\ clean_pass /\ gc_called /\ gc_artifacts = <<>>
  /\ node_outputs["model"]
       = OutputSpec(TRUE, KeepPropertyValueGroups(<<Grouping("span", 1, "KEEP_ORDER_SMALLEST")>>))
  /\ mlmd_artifacts[1].state = "LIVE"
  /\ mlmd_artifacts[2].state = "DELETED" /\ 2 \notin fs
  /\ store_reads >= 2 /\ store_writes = 0 /\ fs_calls = {}

\* The policy evaluator alone: evaluated again on the artifacts it kept, every
\* policy of either variant selects nothing.
PolicySelectsNothingAmongKept ==
  (pe_done /\ pe_returned)
    => _artifacts_to_garbage_collect_for_policy(
         SelectSeq(pe_artifacts, LAMBDA a: a.id \notin DeleteIds), pe_policy)
       = Return(<<>>)

\* ----------------------------------------------------------- interrupted passes
\* What candidate selection yields for one output key of the live artifacts.
SelectedFor(live, all_events, key) ==
  IF key \in DOMAIN live
    THEN _artifacts_to_garbage_collect(
           mlmd_executions, used_in_pipeline_groups, live[key], all_events,
           node_outputs[key].garbage_collection_policy)
    ELSE [exc |-> "none", ret |-> <<>>, read |-> FALSE]

\* The ids selected over all output keys, none when the selection of a key raises.
SelectedAmong(live, all_events) ==
  LET keys == _get_garbage_collection_policies_for_node(node_outputs) IN
  UNION {IF \E r \in rs : r.exc # "none" THEN {}
         ELSE UNION {{r.ret[i].id : i \in 1..Len(r.ret)} : r \in rs} :
         rs \in {{SelectedFor(live, all_events, keys[k]) : k \in 1..Len(keys)}}}

\* What candidate selection yields on the artifact records `store_artifacts`,
\* the events, executions and policies being those of the current state.
SelectedIn(store_artifacts) ==
  UNION {UNION {SelectedAmong(live, all_events) :
                  all_events \in {get_events_by_artifact_ids(
                                    mlmd_events,
                                    UNION {{live[k][i].id : i \in 1..Len(live[k])} :
                                           k \in DOMAIN live})}} :
         live \in {_get_live_output_artifacts_for_node(store_artifacts, NodeId)}}

\* The store and the uris a pass leaves that purges the artifacts `selected`
\* with no removal refused: those artifacts DELETED, the uris of the internal
\* ones gone.
PurgedOutcome(store_artifacts, files, selected) ==
  [store |-> [id \in ArtifactIds |->
                IF id \in selected
                  THEN [store_artifacts[id] EXCEPT !.state = "DELETED"]
                  ELSE store_artifacts[id]],
   files |-> files \ {id \in selected : ~ExternalFlagSet(store_artifacts[id])}]

\* No artifact of the purged set is left with its uri in place.
NoRemovalRefused ==
  \A i \in 1..Len(gc_artifacts) :
    ExternalFlagSet(gc_artifacts[i]) \/ gc_artifacts[i].uri \notin fs

\* C19: every artifact record, stored or in memory, is LIVE or DELETED at every
\* point of a pass; at every point where a pass can be interrupted nothing has
\* been written; the interruption changes no record and no uri; every step of a
\* pass that changes a record or a uri leaves unchanged what an uninterrupted
\* pass started in that state would leave, so a pass run after an interruption
\* that completes with no removal refused leaves the store and the uris exactly
\* as the uninterrupted pass would have.
C19_InterruptedPassConverges ==
  [][
      /\ \A id \in ArtifactIds : mlmd_artifacts'[id].state \in {"LIVE", "DELETED"}
      /\ \A i \in 1..Len(gc_artifacts') : gc_artifacts'[i].state \in {"LIVE", "DELETED"}
      /\ ~AtRest' => store_writes' = 0
      /\ ~Uninterrupted => UNCHANGED <<store_vars, fs, node_outputs>>
      /\ ((mlmd_artifacts' # mlmd_artifacts \/ fs' # fs) /\ expired' = expired)
           => /\ UNCHANGED <<mlmd_events, mlmd_executions, used_in_pipeline_groups,
                             node_outputs>>
              /\ \A before \in {PurgedOutcome(mlmd_artifacts, fs, SelectedIn(mlmd_artifacts))},
                    store_after \in {mlmd_artifacts'}, files_after \in {fs'} :
                   PurgedOutcome(store_after, files_after, SelectedIn(store_after)) = before
      /\ (~AtRest /\ PurgeCompleted' /\ NoRemovalRefused')
           => \A before \in {PurgedOutcome(mlmd_artifacts, fs, SelectedIn(mlmd_artifacts))} :
                /\ mlmd_artifacts' = before.store
                /\ fs' = before.files
    ]_vars

\* The first pass removed uri 1 and was interrupted before uri 2; the second
\* pass found uri 1 missing, removed uri 2 and stored both artifacts DELETED.
C19_Witness ==
  /\ interrupts = 1 /\ passes = 2 /\ expired = 0
  /\ PurgeCompleted /\ store_writes = 1
  /\ [i \in 1..Len(gc_artifacts) |-> gc_artifacts[i].id] = <<1, 2>>
  /\ FsCall("exists", 1) \in fs_calls /\ FsCall("exists", 2) \notin fs_calls
  /\ mlmd_artifacts[1].state = "DELETED" /\ mlmd_artifacts[2].state = "DELETED"
  /\ fs = {3}

\* ------------------------------------------------------------- unset policy
\* The output key "model" has a policy message with neither variant set.
ModelPolicyUnset == node_outputs["model"] = OutputSpec(TRUE, UnsetPolicy)

UnderModelKey(ids) == {id \in ids : OutputKeyOf(id) = "model"}

\* C20: with the policy of an output key set to neither variant, the turn of
\* that key selects nothing, asks the store nothing and raises nothing (no
\* ValueError is ever logged); no artifact of the key is handed to the purge,
\* touched on storage or DELETED; and what the pass hands to the purge is what
\* its other output keys select.
C20_UnsetPolicySkipsOutputKey ==
  [][
      ModelPolicyUnset =>
        /\ (pc = "select" /\ Head(output_keys) = "model" /\ Uninterrupted)
             => /\ pc' \in {"select", "collect"}
                /\ output_keys' = Tail(output_keys)
                /\ UNCHANGED <<result, logged, store_reads>>
        /\ logged' # "ValueError"
        /\ UnderModelKey({result'[i].id : i \in 1..Len(result')}) = {}
        /\ UnderModelKey(HandedIds') = {}
        /\ UnderModelKey({c.uri : c \in fs_calls'}) = {}
        /\ \A id \in UnderModelKey(ArtifactIds) : mlmd_artifacts'[id].state = "LIVE"
        /\ pc' = "collect"
             => \A selected \in {SelectedIn(mlmd_artifacts)} :
                  /\ {result'[i].id : i \in 1..Len(result')} = selected
                  /\ UnderModelKey(selected) = {}
    ]_vars

\* The model key is skipped; the metrics key, evaluated after it, has its
\* artifact purged; the pass returns without a logged failure.
C20_Witness ==
  /\ ModelPolicyUnset
  /\ node_outputs["metrics"] = OutputSpec(TRUE, KeepMostRecentlyPublished(0))
  /\ PurgeCompleted /\ node_uid = NodeId /\ store_writes = 1
  /\ HandedIds = {3}
  /\ mlmd_artifacts[3].state = "DELETED" /\ 3 \notin fs
  /\ mlmd_artifacts[1].state = "LIVE" /\ mlmd_artifacts[2].state = "LIVE"
  /\ {1, 2} \subseteq fs

\* ------------------------------------------------------- missing execution
\* The candidates the policy and the pipeline-group filter leave for one key.
CandidatesBeforeUsageFilter(key) ==
  LET by_policy == _artifacts_to_garbage_collect_for_policy(
                     artifacts_by_output_key[key],
                     node_outputs[key].garbage_collection_policy)
  IN IF by_policy.exc # "none" THEN <<>>
     ELSE artifacts_not_in_use_in_pipeline_groups(used_in_pipeline_groups, by_policy.ret)

\* Some input event on one of the artifacts names an execution the store lacks.
ConsumedByMissingExecution(artifacts) ==
  \E e \in events :
    /\ e.type = "INPUT"
    /\ e.artifact_id \in {artifacts[i].id : i \in 1..Len(artifacts)}
    /\ e.execution_id \notin DOMAIN mlmd_executions

\* C21: when a candidate of an output key has an input event whose execution
\* the store does not return, the turn of that key ends in RuntimeError (or in
\* the store error of the lookup itself) and never adds the candidate to the
\* result; the error is logged and the call returns; nothing was handed to the
\* purge, no file was touched and nothing was written.
C21_MissingExecutionRaises ==
  [][
      /\ (pc = "select" /\ Uninterrupted
            /\ Head(output_keys) \in DOMAIN artifacts_by_output_key)
           => \A candidates \in {CandidatesBeforeUsageFilter(Head(output_keys))} :
                ConsumedByMissingExecution(candidates)
                  => /\ logged' \in {"RuntimeError", "StoreError"}
                     /\ pc' = "returned"
                     /\ store_reads' = store_reads + 1
                     /\ UNCHANGED <<mlmd_artifacts, fs>>
      /\ logged' = "RuntimeError"
           => /\ pc' = "returned" /\ ~gc_called'
              /\ gc_artifacts' = <<>> /\ fs_calls' = {} /\ store_writes' = 0
              /\ UNCHANGED <<mlmd_artifacts, fs>>
    ]_vars

\* Artifact 1, a candidate, was consumed by execution 2, which the store does
\* not hold: the pass logged the RuntimeError and purged nothing.
C21_Witness ==
  /\ pc = "returned" /\ node_uid = NodeId /\ passes = 1
  /\ logged = "RuntimeError" /\ ~gc_called
  /\ node_outputs["model"] = OutputSpec(TRUE, KeepMostRecentlyPublished(0))
  /\ 2 \notin DOMAIN mlmd_executions
  /\ Event(1, 2, "INPUT") \in mlmd_events
  /\ \A id \in ArtifactIds : mlmd_artifacts[id].state = "LIVE"
  /\ fs = ArtifactIds /\ fs_calls = {} /\ store_writes = 0

\* ------------------------------------------------ evaluation is pure (C23)
\* Ids of the input artifacts.
InputIds == {pe_artifacts[i].id : i \in 1..pe_count}

\* The keep set: for KeepPropertyValueGroups the members of the groups that
\* survive the last grouping, otherwise the input artifacts not deleted.
KeepIds ==
  IF IsPropertyValueGroups /\ Len(pe_groupings) > 0
    THEN MemberIds(pe_worklists[Len(pe_groupings)].ret)
    ELSE InputIds \ DeleteIds

\* C23: evaluating a policy is a pure function. The step that evaluates
\* leaves the input artifacts, the policy, the store and the storage as they
\* were; its result is the value of the function on that input; a returned
\* delete set is a sub-list of the input, records untouched, and together
\* with the keep set it partitions the input.
C23_EvaluationIsPure ==
  [][pe_pc = "ready"
       => /\ pe_artifacts' = pe_artifacts /\ pe_policy' = pe_policy
          /\ UNCHANGED <<mlmd_artifacts, mlmd_events, mlmd_executions, fs>>
          /\ pe_result' = _artifacts_to_garbage_collect_for_policy(pe_artifacts, pe_policy)
          /\ pe_result'.exc = "none"
               => /\ DeleteSetInOrder'
                  /\ DeleteIds' \subseteq InputIds
                  /\ KeepIds' \cup DeleteIds' = InputIds
                  /\ KeepIds' \cap DeleteIds' = {}
    ]_vars

\* Two levels of groupings leave two surviving groups and a delete set.
C23_Witness ==
  /\ pe_done /\ pe_returned /\ IsPropertyValueGroups
  /\ Len(pe_groupings) = 2 /\ pe_count = 3
  /\ Len(pe_worklists[2].ret) = 2
  /\ Cardinality(DeleteIds) = 1 /\ Cardinality(KeepIds) = 2

\* ------------------------------------------------- nested groupings (C25)
\* The values (None included) whose buckets survive `grouping` in a group made
\* of the input artifacts at positions I.
SelectedValuesAmong(I, grouping) ==
  LET p == grouping.property_name
      k == grouping.keep_num
      top == IF grouping.keep_order = "KEEP_ORDER_SMALLEST"
               THEN SmallestValues(I, p, k) ELSE LargestValues(I, p, k)
  IN IF k <= 0 THEN {ValueOf(i, p) : i \in I}
     ELSE top \cup (IF Cardinality(top) < k THEN {NoneValue} ELSE {})

\* The positions that share the level-1 bucket of position i.
Level1Bucket(i) ==
  {j \in 1..pe_count :
     ValueOf(j, pe_groupings[1].property_name) = ValueOf(i, pe_groupings[1].property_name)}

\* Selected at level 1 among all artifacts, at level 2 within its own bucket.
KeptAtEveryLevel(i) ==
  /\ ValueOf(i, pe_groupings[1].property_name)
       \in SelectedValuesAmong(1..pe_count, pe_groupings[1])
  /\ ValueOf(i, pe_groupings[2].property_name)
       \in SelectedValuesAmong(Level1Bucket(i), pe_groupings[2])

\* Selected at both levels with level 2 computed over the whole artifact set.
KeptOverWholeSet(i) ==
  /\ ValueOf(i, pe_groupings[1].property_name)
       \in SelectedValuesAmong(1..pe_count, pe_groupings[1])
  /\ ValueOf(i, pe_groupings[2].property_name)
       \in SelectedValuesAmong(1..pe_count, pe_groupings[2])

\* C25: with two groupings the second partitions and selects within every
\* group that survived the first, separately: an artifact is kept iff its
\* level-1 bucket is selected among all artifacts and its level-2 bucket is
\* selected within its own level-1 bucket; every group of the second worklist
\* lies within one group of the first.
C25_LaterGroupingSelectsPerGroup ==
  (pe_done /\ IsPropertyValueGroups /\ Len(pe_groupings) = 2 /\ pe_returned)
    => /\ \A i \in 1..pe_count :
            pe_artifacts[i].id \notin DeleteIds <=> KeptAtEveryLevel(i)
       /\ \A h \in 1..Len(pe_worklists[2].ret) :
            \E g \in 1..Len(pe_worklists[1].ret) :
              MemberIds(<<pe_worklists[2].ret[h]>>) \subseteq MemberIds(<<pe_worklists[1].ret[g]>>)

\* Two level-1 buckets whose own largest versions differ: both artifacts are
\* kept, where one largest version over the whole set would drop one.
C25_Witness ==
  /\ pe_done /\ IsPropertyValueGroups /\ Len(pe_groupings) = 2 /\ pe_returned
  /\ pe_groupings[1].keep_num = 2 /\ pe_groupings[2].keep_num = 1
  /\ pe_groupings[2].keep_order = "KEEP_ORDER_LARGEST"
  /\ pe_count = 3 /\ Len(pe_worklists[1].ret) = 2
  /\ \E i \in 1..pe_count :
       pe_artifacts[i].id \notin DeleteIds /\ ~KeptOverWholeSet(i)
  /\ DeleteIds # {}

\* ------------------------------------------- what reaches the purge (C24)
HasPolicy(key) == node_outputs[key].has_garbage_collection_policy

\* The union, over the output keys with a policy, of the ids the policy of the
\* key does not keep among the LIVE artifacts of the key.
PolicyCandidateIds(store_artifacts) ==
  UNION {UNION {UNION {{r.ret[i].id : i \in 1..Len(r.ret)} :
                         r \in {_artifacts_to_garbage_collect_for_policy(
                                  live[key], node_outputs[key].garbage_collection_policy)}} :
                  key \in {k \in DOMAIN live : HasPolicy(k)}} :
         live \in {_get_live_output_artifacts_for_node(store_artifacts, NodeId)}}

\* C24: what a pass hands to the purge lies within the union of the policy
\* delete-candidates of the output keys that have a policy (the pipeline-group
\* filter and the usage filter only take artifacts away); an artifact under an
\* output key without a policy is never handed over, never touched on storage
\* and never changed in the store by a pass.
C24_PurgeWithinPolicyCandidates ==
  [][
      /\ (pc = "collect" /\ Uninterrupted)
           => \A candidates \in {PolicyCandidateIds(mlmd_artifacts)} :
                HandedIds' \subseteq candidates
      /\ \A id \in ArtifactIds :
           ~HasPolicy(OutputKeyOf(id))
             => /\ id \notin HandedIds'
                /\ \A c \in fs_calls' : c.uri # id
                /\ mlmd_artifacts'[id] = mlmd_artifacts[id]
                /\ expired' = expired => ((id \in fs) <=> (id \in fs'))
    ]_vars

\* The policy keeps artifact 2, the pipeline-group filter holds nothing back:
\* artifact 1 alone is purged; artifact 3, under a key without a policy, stays.
C24_Witness ==
  /\ PurgeCompleted /\ node_uid = NodeId /\ store_writes = 1
  /\ node_outputs["model"] = OutputSpec(TRUE, KeepMostRecentlyPublished(1))
  /\ ~HasPolicy("metrics")
  /\ HandedIds = {1}
  /\ mlmd_artifacts[1].state = "DELETED" /\ 1 \notin fs
  /\ mlmd_artifacts[2].state = "LIVE" /\ mlmd_artifacts[3].state = "LIVE"
  /\ {2, 3} \subseteq fs

\* The pipeline-group filter shrinks the policy candidates {1, 2} to {2}.
C24_FilterShrinks ==
  /\ PurgeCompleted /\ node_uid = NodeId
  /\ node_outputs["model"] = OutputSpec(TRUE, KeepMostRecentlyPublished(0))
  /\ used_in_pipeline_groups = {1}
  /\ UnderModelKey(HandedIds) = {2}

\* ------------------------------------------------- the usage filter (C26)
\* The turn of the loop over the policies returned without an exception.
SelectTurnReturned == pc' \in {"select", "collect"} /\ logged' = "none"

\* C26: a turn of candidate selection that returns adds to the result exactly
\* the candidates of the key that have no input event to an active execution,
\* in candidate order, each once: output events and input events to executions
\* in a terminal state hold no candidate back.
C26_UsageFilterExact ==
  [][(pc = "select" /\ Uninterrupted /\ SelectTurnReturned
        /\ Head(output_keys) \in DOMAIN artifacts_by_output_key)
       => \A candidates \in {CandidatesBeforeUsageFilter(Head(output_keys))} :
            result' = result \o SelectSeq(candidates, LAMBDA a: ~ConsumedByActive(a.id))
    ]_vars

\* Both executions run; execution 1 produced artifacts 1 and 2, execution 2
\* consumes artifact 1 only: of the candidates 1 and 2, artifact 2 stays.
C26_Witness ==
  /\ pc = "select" /\ Head(output_keys) = "metrics"
  /\ node_outputs["model"] = OutputSpec(TRUE, KeepMostRecentlyPublished(0))
  /\ used_in_pipeline_groups = {}
  /\ DOMAIN mlmd_executions = {1, 2}
  /\ \A id \in {1, 2} : mlmd_executions[id].last_known_state = "RUNNING"
  /\ mlmd_events = OutputEvents \cup {Event(1, 2, "INPUT")}
  /\ [i \in 1..Len(result) |-> result[i].id] = <<2>>

\* The only consumer of artifacts 1 and 2 has completed: both stay candidates.
C26_TerminalConsumerReached ==
  /\ pc = "select" /\ Head(output_keys) = "metrics"
  /\ node_outputs["model"] = OutputSpec(TRUE, KeepMostRecentlyPublished(0))
  /\ used_in_pipeline_groups = {}
  /\ DOMAIN mlmd_executions = {1, 2}
  /\ mlmd_executions[2].last_known_state = "COMPLETE"
  /\ {Event(1, 2, "INPUT"), Event(2, 2, "INPUT")} \subseteq mlmd_events
  /\ [i \in 1..Len(result) |-> result[i].id] = <<1, 2>>

\* --------------------------------------------- DELETED means gone (C28)
\* The uri of the artifact was removed, or asked about and found absent, by
\* the filesystem calls of the current pass.
GoneInThisPass(artifact, files, calls) ==
  /\ artifact.uri \notin files
  /\ \E c \in calls : c.uri = artifact.uri /\ c.op \in {"remove", "rmtree"}

\* C28: over passes, interruptions, expiries and storage failures, a pass
\* marks an internal artifact DELETED, in memory and then in the store, only
\* once its own filesystem calls removed the uri or found it absent; no
\* internal artifact that is DELETED in the store has its uri in place; and
\* no step changes a stored artifact from DELETED to another state.
C28_DeletedInternalHasNoUri ==
  [][
      /\ \A i \in 1..Len(gc_artifacts') :
           (~ExternalFlagSet(gc_artifacts'[i]) /\ gc_artifacts'[i].state = "DELETED")
             => GoneInThisPass(gc_artifacts'[i], fs', fs_calls')
      /\ \A id \in ArtifactIds :
           /\ (~ExternalFlagSet(mlmd_artifacts'[id]) /\ mlmd_artifacts'[id].state = "DELETED")
                => id \notin fs'
           /\ (mlmd_artifacts[id].state = "LIVE" /\ mlmd_artifacts'[id].state = "DELETED"
                 /\ ~ExternalFlagSet(mlmd_artifacts[id]))
                => /\ pc = "put"
                   /\ \E i \in 1..Len(gc_artifacts) :
                        gc_artifacts[i].id = id /\ GoneInThisPass(gc_artifacts[i], fs, fs_calls)
           /\ mlmd_artifacts[id].state = "DELETED" => mlmd_artifacts'[id] = mlmd_artifacts[id]
    ]_vars

\* The first pass was interrupted after removing uri 2; in the second pass the
\* removal of uri 1 is refused: artifact 2 is stored DELETED, artifact 1 stays
\* LIVE with its uri, artifact 2 stays DELETED in whatever follows.
C28_Witness ==
  /\ interrupts = 1 /\ passes = 2 /\ PurgeCompleted
  /\ ~ExternalFlagSet(mlmd_artifacts[1]) /\ ~ExternalFlagSet(mlmd_artifacts[2])
  /\ mlmd_artifacts[2].state = "DELETED" /\ 2 \notin fs
  /\ mlmd_artifacts[1].state = "LIVE" /\ 1 \in fs
  /\ FsCall("exists", 1) \in fs_calls

\* ------------------------------------- one key raises, nothing purged (C29)
\* Candidate selection for the key cannot but raise: its policy cannot be
\* evaluated, or a candidate has an input event whose execution is missing.
KeyRaises(key) ==
  /\ key \in DOMAIN artifacts_by_output_key
  /\ \/ _artifacts_to_garbage_collect_for_policy(
          artifacts_by_output_key[key],
          node_outputs[key].garbage_collection_policy).exc # "none"
     \/ ConsumedByMissingExecution(CandidatesBeforeUsageFilter(key))

SelectionErrors == {"ValueError", "RuntimeError"}

\* C29: when candidate selection raises for an output key, the pass ends
\* there: the exception is logged, the call returns, the artifacts selected
\* for the keys before it are dropped, the purge is not entered, no filesystem
\* call and no store write is made and every record and uri stays as it was.
C29_SelectionErrorPurgesNothing ==
  [][
      /\ (pc = "select" /\ Uninterrupted /\ KeyRaises(Head(output_keys)))
           => /\ pc' = "returned"
              /\ logged' \in SelectionErrors \cup {"StoreError"}
              /\ result' = <<>>
      /\ logged' \in SelectionErrors
           => /\ pc' = "returned" /\ ~gc_called'
              /\ gc_artifacts' = <<>> /\ fs_calls' = {} /\ store_writes' = 0
              /\ UNCHANGED <<mlmd_artifacts, fs>>
    ]_vars

\* The turn of "model" selected artifacts 1 and 2; the turn of "metrics" met
\* an input event on artifact 3 whose execution is missing: nothing was purged.
C29_Witness ==
  /\ pc = "returned" /\ logged = "RuntimeError" /\ passes = 1 /\ expired = 0
  /\ node_outputs["model"] = OutputSpec(TRUE, KeepMostRecentlyPublished(0))
  /\ HasPolicy("metrics")
  /\ used_in_pipeline_groups = {}
  /\ mlmd_events = OutputEvents \cup {Event(3, 2, "INPUT")}
  /\ DOMAIN mlmd_executions = {1}
  /\ ~gc_called /\ fs_calls = {} /\ store_writes = 0
  /\ \A id \in ArtifactIds : mlmd_artifacts[id].state = "LIVE"
  /\ fs = ArtifactIds

\* The policy of "model" names an unknown keep_order: "metrics" is not purged.
C29_ValueErrorReached ==
  /\ pc = "returned" /\ logged = "ValueError" /\ passes = 1 /\ expired = 0
  /\ HasPolicy("metrics")
  /\ mlmd_events = OutputEvents
  /\ mlmd_artifacts[3].state = "LIVE" /\ 3 \in fs

\* --------------------------- executions starting during a pass (C30)
\* The step removes the uri of the artifact on behalf of the pass.
RemovedByPass(id) == pc = "delete" /\ id \in fs /\ id \notin fs'

\* C30 as stated: with executions starting while a pass runs, the pass removes
\* the uri of an artifact only while no active execution has an input event on
\* the artifact.
C30_Original ==
  [][\A id \in ArtifactIds : RemovedByPass(id) => ~ConsumedByActive(id)]_vars

\* Execution 2 started on artifact 1 after the usage filter had passed it: the
\* pass removed the uri and stored artifact 1 as DELETED while execution 2 runs.
C30_Witness ==
  /\ PurgeCompleted /\ passes = 1
  /\ ConsumedByActive(1)
  /\ 1 \in HandedIds /\ ~ExternalFlagSet(mlmd_artifacts[1])
  /\ FsCall("remove", 1) \in fs_calls \/ FsCall("rmtree", 1) \in fs_calls
  /\ mlmd_artifacts[1].state = "DELETED" /\ 1 \notin fs

\* ------------------------------------------- eventual deletion (C27)
\* C27: under repeated passes in which no store call and no removal of a uri
\* fails for ever, every artifact that candidate selection picks (a policy
\* candidate not in use), whether or not the removal of its uri was refused
\* in earlier passes, is eventually DELETED in the store.
C27_SelectedEventuallyDeleted ==
  \A id \in ArtifactIds :
    (id \in SelectedIn(mlmd_artifacts)) ~> (mlmd_artifacts[id].state = "DELETED")

\* The first pass was refused the removal of uri 1 and stored artifact 2 as
\* DELETED; the second pass selected artifact 1 again, removed its uri and
\* stored it as DELETED.
C27_Witness ==
  /\ passes = 2 /\ PurgeCompleted /\ store_writes = 1
  /\ node_outputs["model"] = OutputSpec(TRUE, KeepMostRecentlyPublished(0))
  /\ ~ExternalFlagSet(mlmd_artifacts[1]) /\ ~ExternalFlagSet(mlmd_artifacts[2])
  /\ UnderModelKey(HandedIds) = {1}
  /\ FsCall("exists", 1) \notin fs_calls
  /\ FsCall("remove", 1) \in fs_calls \/ FsCall("rmtree", 1) \in fs_calls
  /\ mlmd_artifacts[1].state = "DELETED" /\ mlmd_artifacts[2].state = "DELETED"
  /\ 1 \notin fs /\ 2 \notin fs

\* --------------------------------------- passes of two nodes (C22)
\* The ids candidate selection for node n yields on the artifact records
\* `store_artifacts`, none when the selection of a key raises.
SelectedByNode(store_artifacts, n) ==
  UNION {UNION {SelectedAmong(live, all_events) :
                  all_events \in {get_events_by_artifact_ids(
                                    mlmd_events,
                                    UNION {{live[k][i].id : i \in 1..Len(live[k])} :
                                           k \in DOMAIN live})}} :
         live \in {LiveOutputArtifactsOfNode(store_artifacts, n)}}

\* What one pass of node n, run alone with no removal refused, makes of `o`.
PassOutcome(o, n) == PurgedOutcome(o.store, o.files, SelectedByNode(o.store, n))

\* The pass of `first` run to its end, then the pass of `second`, from the
\* state in which every artifact is LIVE with its uri in place.
SerialOutcome(store_artifacts, first, second) ==
  PassOutcome(
    PassOutcome([store |-> [id \in ArtifactIds |->
                              [store_artifacts[id] EXCEPT !.state = "LIVE"]],
                 files |-> ArtifactIds],
                first),
    second)

\* Both passes returned without an exception and with no removal refused.
BothCompleted(node_passes, files) ==
  \A n \in Nodes :
    /\ node_passes[n].pc = "returned" /\ node_passes[n].logged = "none"
    /\ \A i \in 1..Len(node_passes[n].gc_artifacts) :
         \/ ExternalFlagSet(node_passes[n].gc_artifacts[i])
         \/ node_passes[n].gc_artifacts[i].uri \notin files

\* C22: while the passes of two nodes with disjoint output artifacts and
\* distinct uris interleave step by step, a step of one node's pass changes no
\* record and no uri of the other node's artifacts, and when both passes have
\* completed the records and the uris are those left by running the two
\* passes one after the other, in either order.
C22_DistinctNodesInterleave ==
  [][
      /\ \A n \in Nodes :
           node_pass'[n] # node_pass[n]
             => \A id \in ArtifactIds :
                  ProducerNode(id) # n
                    => /\ mlmd_artifacts'[id] = mlmd_artifacts[id]
                       /\ (id \in fs) <=> (id \in fs')
      /\ BothCompleted(node_pass', fs')
           => \A after \in {[store |-> mlmd_artifacts', files |-> fs']} :
                /\ after = SerialOutcome(after.store, "trainer", "evaluator")
                /\ after = SerialOutcome(after.store, "evaluator", "trainer")
    ]_vars

\* Both passes are in their purge at once: "trainer" has removed uri 1 and is
\* about to go on, "evaluator" has removed uri 2 and is about to write.
C22_Witness ==
  /\ node_pass["trainer"].pc = "delete" /\ node_pass["trainer"].index = 2
  /\ node_pass["evaluator"].pc = "put"
  /\ 1 \notin fs /\ 2 \notin fs /\ 3 \in fs
  /\ \A id \in ArtifactIds : mlmd_artifacts[id].state = "LIVE"

\* Both passes completed: every artifact is DELETED, every internal uri gone.
C22_BothCompletedReached ==
  /\ BothCompleted(node_pass, fs)
  /\ \A id \in ArtifactIds : mlmd_artifacts[id].state = "DELETED"
  /\ {1, 2} \cap fs = {}

====
